---------------------------- MODULE Spec2Model ----------------------------
(***************************************************************************)
(* False Friend: procedural round generator and round/run state machine    *)
(* of src/games/false-friend/FalseFriendGame.tsx.                          *)
(*                                                                         *)
(* Hues are kept in sevenths of a degree, so that 360 / paletteSize is an  *)
(* integer for every palette size the level table produces (1..9).         *)
(* Time is virtual: pending timers carry the milliseconds left until they  *)
(* are due, and fire in order of due time, then of registration.           *)
(***************************************************************************)
EXTENDS Integers, Sequences, FiniteSets, TLC

(***************************************************************************)
(* Bounds of the model.                                                    *)
(***************************************************************************)
\* highest level number whose content is generated
MaxLevel == 20
\* Math.floor(Math.random() * 1000) is drawn from 0 .. SeedBound - 1
SeedBound == 2
\* friend slots are drawn from 0 .. SlotDrawRange - 1
SlotDrawRange == 4
\* number of Math.random() draws the friend-slot loop may use
MaxSlotDraws == 5
\* number of beginRun calls in one behaviour
MaxRuns == 2
\* highest round that is played
MaxRound == 2
\* friend clicks in one behaviour
MaxFriendClicks == 1
\* number of times the browser runs a timeout late in one behaviour
MaxLate == 1
\* the inserts of handleSubmitScore awaited at one time
MaxSubmits == 2
\* by how many milliseconds a late timeout is late
LateMs == 40
\* highest round number the level table and the rule catalog are asked for
MaxCfgLevel == 60
\* how many round numbers below 1 they are asked for
BelowOne == 3
\* longest reaction time that is scored, in milliseconds
MaxReactionMs == 2100
\* highest round whose clear bonus is computed
MaxBonusRound == 28

(***************************************************************************)
(* Program constants.                                                      *)
(***************************************************************************)
RULE_CARD_MS == 3000
FALSE_EXPIRE_POINTS == 10
ROUND_BONUS_BASE == 500
SHAPES == <<"circle", "square", "diamond", "triangle", "pentagon", "hexagon">>
HueTurn == 360 * 7
FULL_PALETTE == [i \in 1..24 |-> ((HueTurn \div 24) * (i - 1))]

Min2(a, b) == IF a < b THEN a ELSE b
Max2(a, b) == IF a > b THEN a ELSE b

\* clamp without its upper limit
clampFromBelow(value, min, max) == Max2(min, value)

clamp(value, min, max) == Min2(max, Max2(min, value))

\* items.slice(0, n)
Slice(items, n) == SubSeq(items, 1, Min2(n, Len(items)))

Includes(items, x) == \E k \in 1..Len(items) : items[k] = x

getNotchAngle(index, notchPositions) ==
    IF notchPositions <= 0 THEN 0 ELSE (360 \div notchPositions) * index

\* getMinimumHits that keeps growing with the level
getMinimumHitsGrowing(levelNumber) ==
    IF levelNumber <= 2 THEN 1
    ELSE IF levelNumber <= 6 THEN 2
    ELSE levelNumber \div 2

\* getMinimumHits of the variant of the component with the leaderboard
getMinimumHitsBoard(levelNumber) ==
    IF levelNumber <= 3 THEN 1
    ELSE IF levelNumber <= 6 THEN 2
    ELSE 3

getMinimumHits(levelNumber) ==
    IF levelNumber <= 2 THEN 1
    ELSE IF levelNumber <= 6 THEN 2
    ELSE 3

\* LevelConfig that activates the color attribute in every level
LevelConfigAlwaysColor(tier, attributes, shapeCount, paletteSize, maxDots, notchPositions, spawnDelayMs) ==
    [tier |-> tier,
     attributes |-> IF \E k \in 1..Len(attributes) : attributes[k] = "color"
                    THEN attributes ELSE Append(attributes, "color"),
     shapeCount |-> shapeCount,
     paletteSize |-> paletteSize, maxDots |-> maxDots,
     notchPositions |-> notchPositions, spawnDelayMs |-> spawnDelayMs,
     friendCount |-> 4, objectCount |-> 20, objectVisibleMs |-> 2000]

LevelConfig(tier, attributes, shapeCount, paletteSize, maxDots, notchPositions, spawnDelayMs) ==
    [tier |-> tier, attributes |-> attributes, shapeCount |-> shapeCount,
     paletteSize |-> paletteSize, maxDots |-> maxDots,
     notchPositions |-> notchPositions, spawnDelayMs |-> spawnDelayMs,
     friendCount |-> 4, objectCount |-> 20, objectVisibleMs |-> 2000]

pairCycle ==
    << <<"shape", "dots">>, <<"shape", "notch">>, <<"color", "dots">>,
       <<"color", "notch">>, <<"shape", "color">>, <<"dots", "notch">> >>

getLevelConfig(levelNumber) ==
    IF levelNumber <= 2 THEN
        LevelConfig(1, <<"shape">>, 2, 1, 0, 0, 650)
    ELSE IF levelNumber <= 6 THEN
        LET shapeCount == IF levelNumber = 5 THEN 3 ELSE 2
            paletteSize == IF levelNumber = 6 THEN 3 ELSE 2
        IN  LevelConfig(2, <<"shape", "color">>, shapeCount, paletteSize, 0, 0, 620)
    ELSE IF levelNumber <= 10 THEN
        LET phaseLevel == levelNumber - 7
            shapeCount == <<3, 4, 5, 5>>[phaseLevel + 1]
            paletteSize == <<3, 5, 6, 7>>[phaseLevel + 1]
            spawnDelayMs == <<550, 520, 490, 460>>[phaseLevel + 1]
        IN  LevelConfig(2, <<"shape", "color">>, shapeCount, paletteSize, 0, 0, spawnDelayMs)
    ELSE IF levelNumber <= 14 THEN
        LET sequence == << [attributes |-> <<"dots">>, maxDots |-> 3, notchPositions |-> 0],
                           [attributes |-> <<"notch">>, maxDots |-> 0, notchPositions |-> 2],
                           [attributes |-> <<"dots">>, maxDots |-> 4, notchPositions |-> 0],
                           [attributes |-> <<"notch">>, maxDots |-> 0, notchPositions |-> 4] >>
            pick == sequence[levelNumber - 11 + 1]
        IN  LevelConfig(1, pick.attributes, 1, 1, pick.maxDots, pick.notchPositions, 500)
    ELSE
        LET pair == pairCycle[((levelNumber - 15) % Len(pairCycle)) + 1]
            depth == levelNumber - 15
            shapeCount0 == IF Includes(pair, "shape") THEN clamp(3 + (depth \div 3), 3, 6) ELSE 1
            paletteSize0 == IF Includes(pair, "color") THEN clamp(3 + (depth \div 2), 3, 9) ELSE 1
            maxDots == IF Includes(pair, "dots") THEN clamp(3 + (depth \div 3), 3, 8) ELSE 0
            notch0 == clamp(2 + (depth \div 3) * 2, 2, 8)
            notchPositions == IF Includes(pair, "notch")
                              THEN (IF notch0 % 2 = 1 THEN notch0 + 1 ELSE notch0)
                              ELSE 0
            both == Includes(pair, "shape") /\ Includes(pair, "color")
            shapeCount == IF both THEN Max2(2, (shapeCount0 * 7) \div 10) ELSE shapeCount0
            paletteSize == IF both THEN Max2(2, (paletteSize0 * 7) \div 10) ELSE paletteSize0
            spawnDelayMs == Max2(300, 460 - depth * 12)
        IN  LevelConfig(2, pair, shapeCount, paletteSize, maxDots, notchPositions, spawnDelayMs)

pickFrom(items, seed) == items[(seed % Len(items)) + 1]

buildRule(levelNumber) ==
    LET config == getLevelConfig(levelNumber)
        shapeChoices == Slice(SHAPES, config.shapeCount)
        colorChoices == Slice(FULL_PALETTE, config.paletteSize)
        dotChoices == IF config.maxDots > 0 THEN [i \in 1..config.maxDots |-> i] ELSE <<0>>
    IN  [levelNumber |-> levelNumber,
         config |-> config,
         friend |-> [shape |-> pickFrom(shapeChoices, levelNumber * 3),
                     hue |-> pickFrom(colorChoices, levelNumber * 5),
                     dotCount |-> pickFrom(dotChoices, levelNumber * 7),
                     notchAngle |-> getNotchAngle(levelNumber % Max2(1, config.notchPositions),
                                                  config.notchPositions)]]

\* lower: the outcome of Math.random() < 0.5
nearHue(base, paletteSize, lower) ==
    LET step == IF paletteSize > 0 THEN HueTurn \div paletteSize ELSE 20 * 7
    IN  base + (IF lower THEN -step ELSE step)

NoExclude == -1

\* draw1, draw2: the two values of Math.floor(Math.random() * notchPositions)
randomNotchAngle(notchPositions, exclude, draw1, draw2) ==
    IF notchPositions <= 0 THEN 0
    ELSE LET angle == getNotchAngle(draw1, notchPositions)
         IN  IF exclude # NoExclude /\ angle = exclude
             THEN getNotchAngle((draw2 + 1) % notchPositions, notchPositions)
             ELSE angle

matchesRule(orb, rule) ==
    \A k \in 1..Len(rule.config.attributes) :
        LET attr == rule.config.attributes[k]
        IN  IF attr = "shape" THEN orb.shape = rule.friend.shape
            ELSE IF attr = "color" THEN orb.hue = rule.friend.hue
            ELSE IF attr = "dots" THEN orb.dotCount = rule.friend.dotCount
            ELSE orb.notchAngle = rule.friend.notchAngle

\* shapeChoices.find((shape) => shape !== friendShape) ?? fallback
FindOtherShape(shapeChoices, friendShape, fallback) ==
    LET hits == {k \in 1..Len(shapeChoices) : shapeChoices[k] # friendShape}
    IN  IF hits = {} THEN fallback
        ELSE shapeChoices[CHOOSE k \in hits : \A j \in hits : k <= j]


(***************************************************************************)
(* Random draws.  One record of draws feeds one call of makeFalseOrb:      *)
(*   shapeSeed, hueSeed  Math.floor(Math.random() * 1000) of the draft     *)
(*   dotDraw, notchDraw0 Math.floor(Math.random() * n) of the draft        *)
(*   roll                0: roll < 0.42, 1: roll < 0.84, 2: otherwise      *)
(*   hueLower            Math.random() < 0.5 in nearHue (mutate)           *)
(*   notchDraw1/2        the two draws of randomNotchAngle (mutate)        *)
(*   fixHueLower, fixNotchDraw1/2  the same draws in the final re-check    *)
(***************************************************************************)
DrawsBelow(n) == 0..(Max2(1, n) - 1)

RndSet(rule) ==
    LET config == rule.config
        notchDraws == IF Includes(config.attributes, "notch")
                      THEN DrawsBelow(config.notchPositions) ELSE {0}
        coins == IF Includes(config.attributes, "color") THEN BOOLEAN ELSE {FALSE}
    IN  [shapeSeed : 0..(SeedBound - 1),
         hueSeed : 0..(SeedBound - 1),
         dotDraw : DrawsBelow(config.maxDots),
         notchDraw0 : DrawsBelow(config.notchPositions),
         roll : IF config.tier = 2 THEN 0..2 ELSE {0},
         hueLower : coins,
         notchDraw1 : notchDraws,
         notchDraw2 : notchDraws,
         fixHueLower : coins,
         fixNotchDraw1 : notchDraws,
         fixNotchDraw2 : notchDraws]

\* the draft of makeFalseOrb before any mutate
makeDraft(rule, rnd) ==
    LET shapeChoices == Slice(SHAPES, rule.config.shapeCount)
        colorChoices == Slice(FULL_PALETTE, rule.config.paletteSize)
    IN  [shape |-> pickFrom(shapeChoices, rnd.shapeSeed),
         hue |-> pickFrom(colorChoices, rnd.hueSeed),
         dotCount |-> IF rule.config.maxDots > 0 THEN rnd.dotDraw + 1 ELSE 0,
         notchAngle |-> randomNotchAngle(rule.config.notchPositions, NoExclude,
                                         rnd.notchDraw0, rnd.notchDraw0)]

mutate(rule, draft, attr, shouldMatch, rnd) ==
    LET shapeChoices == Slice(SHAPES, rule.config.shapeCount)
    IN  IF attr = "shape" THEN
            [draft EXCEPT !.shape =
                IF shouldMatch THEN rule.friend.shape
                ELSE FindOtherShape(shapeChoices, rule.friend.shape, rule.friend.shape)]
        ELSE IF attr = "color" THEN
            [draft EXCEPT !.hue =
                IF shouldMatch THEN rule.friend.hue
                ELSE nearHue(rule.friend.hue, rule.config.paletteSize, rnd.hueLower)]
        ELSE IF attr = "dots" THEN
            IF rule.config.maxDots <= 0 THEN [draft EXCEPT !.dotCount = 0]
            ELSE [draft EXCEPT !.dotCount =
                    IF shouldMatch THEN rule.friend.dotCount
                    ELSE (rule.friend.dotCount % rule.config.maxDots) + 1]
        ELSE
            [draft EXCEPT !.notchAngle =
                IF shouldMatch THEN rule.friend.notchAngle
                ELSE randomNotchAngle(rule.config.notchPositions, rule.friend.notchAngle,
                                      rnd.notchDraw1, rnd.notchDraw2)]

\* the draft after the tier branch of makeFalseOrb, before the re-check
mutateByTier(rule, rnd) ==
    LET draft == makeDraft(rule, rnd)
        attributes == rule.config.attributes
    IN  IF rule.config.tier = 2 THEN
            LET first == attributes[1]
                second == attributes[2]
            IN  IF rnd.roll = 0 THEN
                    mutate(rule, mutate(rule, draft, first, TRUE, rnd), second, FALSE, rnd)
                ELSE IF rnd.roll = 1 THEN
                    mutate(rule, mutate(rule, draft, first, FALSE, rnd), second, TRUE, rnd)
                ELSE
                    mutate(rule, mutate(rule, draft, first, FALSE, rnd), second, FALSE, rnd)
        ELSE mutate(rule, draft, attributes[1], FALSE, rnd)

makeFalseOrb(rule, rnd) ==
    LET shapeChoices == Slice(SHAPES, rule.config.shapeCount)
        draft == mutateByTier(rule, rnd)
        attributes == rule.config.attributes
    IN  IF matchesRule(draft, rule) THEN
            IF Includes(attributes, "notch") THEN
                [draft EXCEPT !.notchAngle =
                    randomNotchAngle(rule.config.notchPositions, rule.friend.notchAngle,
                                     rnd.fixNotchDraw1, rnd.fixNotchDraw2)]
            ELSE IF Includes(attributes, "dots") /\ rule.config.maxDots > 0 THEN
                [draft EXCEPT !.dotCount =
                    ((rule.friend.dotCount + 1) % rule.config.maxDots) + 1]
            ELSE IF Includes(attributes, "color") THEN
                [draft EXCEPT !.hue =
                    nearHue(rule.friend.hue, rule.config.paletteSize, rnd.fixHueLower)]
            ELSE
                [draft EXCEPT !.shape =
                    FindOtherShape(shapeChoices, rule.friend.shape, draft.shape)]
        ELSE draft

(***************************************************************************)
(* buildRound.  slotDraws is the sequence of values that                   *)
(* Math.floor(Math.random() * objectCount) takes in the friend-slot loop;  *)
(* the loop stops as soon as the set holds friendCount slots.              *)
(***************************************************************************)
RECURSIVE addSlotDraws(_, _, _, _)
addSlotDraws(friendSlots, slotDraws, k, friendCount) ==
    IF Cardinality(friendSlots) >= friendCount \/ k > Len(slotDraws) THEN friendSlots
    ELSE addSlotDraws(friendSlots \cup {slotDraws[k]}, slotDraws, k + 1, friendCount)

\* friendSlotsOf without the retry on a slot that is already taken
friendSlotsNoRetry(slotDraws, friendCount) ==
    {slotDraws[k] : k \in 1..Min2(friendCount, Len(slotDraws))}

friendSlotsOf(slotDraws, friendCount) == addSlotDraws({}, slotDraws, 1, friendCount)

\* the draws the model feeds the loop: those with which it terminates
SlotDrawSeqs ==
    {d \in [1..MaxSlotDraws -> 0..(SlotDrawRange - 1)] :
        Cardinality({d[k] : k \in 1..MaxSlotDraws}) >= 4}

FriendSlotChoices == {friendSlotsOf(d, 4) : d \in SlotDrawSeqs}

\* suffix stands for the random base-36 suffix of the ids of one build;
\* rnds[i] are the draws of the makeFalseOrb call of slot i
buildRoundWith(levelNumber, friendSlots, rnds, suffix) ==
    LET rule == buildRule(levelNumber)
        object(i) ==
            LET isFriend == i \in friendSlots
                core == IF isFriend THEN rule.friend ELSE makeFalseOrb(rule, rnds[i])
            IN  [id |-> <<levelNumber, i, suffix>>,
                 isFriend |-> isFriend,
                 shape |-> core.shape,
                 hue |-> core.hue,
                 dotCount |-> core.dotCount,
                 notchAngle |-> core.notchAngle,
                 sinceSpawn |-> 0]
    IN  [rule |-> rule,
         objects |-> SubSeq([k \in 1..rule.config.objectCount |-> object(k - 1)],
                            1, rule.config.objectCount)]

buildRound(levelNumber, slotDraws, rnds, suffix) ==
    buildRoundWith(levelNumber,
                   friendSlotsOf(slotDraws, getLevelConfig(levelNumber).friendCount),
                   rnds, suffix)


(***************************************************************************)
(* The component FalseFriendGame.                                          *)
(*                                                                         *)
(* timers is the browser's table of pending timeouts in registration       *)
(* order; timersRef and expiryTimersRef are the ids the component tracks.  *)
(* An id is <<run, kind, round, index>>: run stands for the uniqueness of  *)
(* the ids window.setTimeout returns, and as the suffix of the token ids.  *)
(* sinceSpawn of an active token is performance.now() - spawnedAt.         *)
(* closureScore is the value of score seen by the triggerDeath that the    *)
(* showRuleThenStart of the running timers closes over.                    *)
(***************************************************************************)
VARIABLES phase, countdown, roundNumber, score, activeObjects, currentRule,
          friendsClicked, reactionTotal, roundsCleared, roundFriendHits,
          deathScoreRef, roundFriendHitsRef, timersRef, expiryTimersRef,
          timers, closureScore, runNo, lateCount, clickCount, clickTimes,
          staleOrb,
          genStage, genLevel, genAttr, genOrb, genObjects,
          fnStage, fnArg, fnOut, fnThrew,
          supabase, leaderboard, leaderboardError, isLeaderboardLoading,
          hasSubmittedScore, loadReq, submitReq,
          runIdRef

gameVars == <<phase, countdown, roundNumber, score, activeObjects, currentRule,
              friendsClicked, reactionTotal, roundsCleared, roundFriendHits,
              deathScoreRef, roundFriendHitsRef, timersRef, expiryTimersRef,
              timers, closureScore, runNo, lateCount, clickCount, clickTimes,
              staleOrb>>
genVars == <<genStage, genLevel, genAttr, genOrb, genObjects>>
fnVars == <<fnStage, fnArg, fnOut, fnThrew>>
lbVars == <<supabase, leaderboard, leaderboardError, isLeaderboardLoading,
            hasSubmittedScore, loadReq, submitReq>>
idVars == <<runIdRef>>
vars == <<gameVars, genVars, fnVars, lbVars, idVars>>

NoObject ==
    [id |-> <<0, 0, 0>>, isFriend |-> FALSE, shape |-> "circle", hue |-> 0,
     dotCount |-> 0, notchAngle |-> 0, sinceSpawn |-> 0]

NoCore == [shape |-> "circle", hue |-> 0, dotCount |-> 0, notchAngle |-> 0]

Timer(id, kind, rem, round, arg, object) ==
    [id |-> id, kind |-> kind, rem |-> rem, round |-> round, arg |-> arg, object |-> object]

RemoveTimers(pending, ids) == SelectSeq(pending, LAMBDA t : t.id \notin ids)

\* clearAllTimers that forgets the expiry timeouts
clearAllTimersNoExpiry(pending) == RemoveTimers(pending, timersRef)

\* clearAllTimers that forgets the spawn and round timeouts
clearAllTimersOnlyExpiry(pending) ==
    RemoveTimers(pending, {e.timer : e \in expiryTimersRef})

\* the table of pending timeouts after clearAllTimers
clearAllTimers(pending) ==
    RemoveTimers(pending, timersRef \cup {e.timer : e \in expiryTimersRef})

FilterOut(objects, id) == SelectSeq(objects, LAMBDA item : item.id # id)

\* roundClearBonus that stops growing at 20000
roundClearBonusCapped(nextRound) ==
    Min2(20000,
         <<500, 1148, 1868, 2639, 3449, 4292, 5165, 6062, 6983, 7924, 8884, 9862,
           10856, 11866, 12890, 13928, 14979, 16043, 17118, 18205, 19303, 20411,
           21529, 22658, 23795, 24942, 26097, 27262, 28434, 29615>>[nextRound])

\* Math.floor(ROUND_BONUS_BASE * nextRound ** 1.2) for ROUND_BONUS_BASE = 500,
\* tabulated for the rounds 1..30
roundClearBonus(nextRound) ==
    <<500, 1148, 1868, 2639, 3449, 4292, 5165, 6062, 6983, 7924, 8884, 9862,
      10856, 11866, 12890, 13928, 14979, 16043, 17118, 18205, 19303, 20411,
      21529, 22658, 23795, 24942, 26097, 27262, 28434, 29615>>[nextRound]

GameInit ==
    /\ phase = "start"
    /\ countdown = 3
    /\ roundNumber = 1
    /\ score = 0
    /\ activeObjects = <<>>
    /\ currentRule = buildRule(1)
    /\ friendsClicked = 0
    /\ reactionTotal = 0
    /\ roundsCleared = 0
    /\ roundFriendHits = 0
    /\ deathScoreRef = 0
    /\ roundFriendHitsRef = 0
    /\ timersRef = {}
    /\ expiryTimersRef = {}
    /\ timers = <<>>
    /\ closureScore = 0
    /\ runNo = 0
    /\ lateCount = 0
    /\ clickCount = 0
    /\ clickTimes = <<>>
    /\ staleOrb = NoObject

GenIdle ==
    /\ genStage = "off"
    /\ genLevel = 0
    /\ genAttr = "none"
    /\ genOrb = NoCore
    /\ genObjects = <<>>

\* no function of the catalog or of the scoring module is being evaluated
FnIdle ==
    /\ fnStage = "off"
    /\ fnArg = 0
    /\ fnOut = 0
    /\ fnThrew = FALSE

\* the value of an empty leaderboardError
Null == "null"

\* no insert is awaited
NoSubmit == <<>>

\* the leaderboard state after construction, with the Supabase client
\* configured and nothing requested
BoardIdle ==
    /\ supabase = TRUE
    /\ leaderboard = <<>>
    /\ leaderboardError = Null
    /\ isLeaderboardLoading = FALSE
    /\ hasSubmittedScore = FALSE
    /\ loadReq = "none"
    /\ submitReq = NoSubmit

\* no run of the variant with the generation counter has been started
IdIdle == runIdRef = 0

Init == GameInit /\ GenIdle /\ FnIdle /\ BoardIdle /\ IdIdle

\* beginRun that shows the first rule card at once, not after the countdown
beginRunSkipsCountdown ==
    /\ runNo < MaxRuns
    /\ LET run == runNo + 1
           tick(second) == Timer(<<run, "countdown", 0, second>>, "countdown",
                                 (3 - second) * 1000, 0, second, NoObject)
           startTimer == Timer(<<run, "start", 0, 0>>, "start", 3000, 1, 0, NoObject)
           fresh == <<tick(3), tick(2), tick(1), startTimer>>
       IN  /\ timers' = clearAllTimers(timers) \o fresh
           /\ timersRef' = {fresh[k].id : k \in 1..Len(fresh)}
           /\ runNo' = run
    /\ expiryTimersRef' = {}
    /\ score' = 0
    /\ roundNumber' = 1
    /\ roundsCleared' = 0
    /\ friendsClicked' = 0
    /\ reactionTotal' = 0
    /\ currentRule' = buildRule(1)
    /\ roundFriendHitsRef' = 0
    /\ roundFriendHits' = 0
    /\ deathScoreRef' = 0
    /\ countdown' = 3
    /\ phase' = "ruleCard"
    /\ closureScore' = score
    /\ clickTimes' = <<>>
    /\ UNCHANGED <<activeObjects, lateCount, clickCount, genVars, fnVars, lbVars, idVars>>
    /\ staleOrb' = NoObject

\* beginRun that forgets setFriendsClicked(0)
beginRunKeepsFriendsClicked ==
    /\ runNo < MaxRuns
    /\ LET run == runNo + 1
           tick(second) == Timer(<<run, "countdown", 0, second>>, "countdown",
                                 (3 - second) * 1000, 0, second, NoObject)
           startTimer == Timer(<<run, "start", 0, 0>>, "start", 3000, 1, 0, NoObject)
           fresh == <<tick(3), tick(2), tick(1), startTimer>>
       IN  /\ timers' = clearAllTimers(timers) \o fresh
           /\ timersRef' = {fresh[k].id : k \in 1..Len(fresh)}
           /\ runNo' = run
    /\ expiryTimersRef' = {}
    /\ score' = 0
    /\ roundNumber' = 1
    /\ roundsCleared' = 0
    /\ friendsClicked' = friendsClicked
    /\ reactionTotal' = 0
    /\ currentRule' = buildRule(1)
    /\ roundFriendHitsRef' = 0
    /\ roundFriendHits' = 0
    /\ deathScoreRef' = 0
    /\ countdown' = 3
    /\ phase' = "countdown"
    /\ closureScore' = score
    /\ clickTimes' = <<>>
    /\ UNCHANGED <<activeObjects, lateCount, clickCount, genVars, fnVars, lbVars, idVars>>
    /\ staleOrb' = NoObject

beginRun ==
    /\ runNo < MaxRuns
    /\ LET run == runNo + 1
           tick(second) == Timer(<<run, "countdown", 0, second>>, "countdown",
                                 (3 - second) * 1000, 0, second, NoObject)
           startTimer == Timer(<<run, "start", 0, 0>>, "start", 3000, 1, 0, NoObject)
           fresh == <<tick(3), tick(2), tick(1), startTimer>>
       IN  /\ timers' = clearAllTimers(timers) \o fresh
           /\ timersRef' = {fresh[k].id : k \in 1..Len(fresh)}
           /\ runNo' = run
    /\ expiryTimersRef' = {}
    /\ score' = 0
    /\ roundNumber' = 1
    /\ roundsCleared' = 0
    /\ friendsClicked' = 0
    /\ reactionTotal' = 0
    /\ currentRule' = buildRule(1)
    /\ roundFriendHitsRef' = 0
    /\ roundFriendHits' = 0
    /\ deathScoreRef' = 0
    /\ countdown' = 3
    /\ phase' = "countdown"
    /\ closureScore' = score
    /\ clickTimes' = <<>>
    /\ UNCHANGED <<activeObjects, lateCount, clickCount, genVars, fnVars, lbVars, idVars>>
    /\ staleOrb' = NoObject

(***************************************************************************)
(* Timers.  rem is the time left until a timeout is due, negative once it  *)
(* is overdue.  A due timeout fires, the one due first and among those the *)
(* one registered first.  Time passes only while none is due.              *)
(***************************************************************************)
HasDue == \E k \in 1..Len(timers) : timers[k].rem <= 0
DueIndex == CHOOSE k \in 1..Len(timers) :
                /\ timers[k].rem <= 0
                /\ \A j \in 1..Len(timers) : timers[k].rem <= timers[j].rem
                /\ \A j \in 1..(k - 1) : timers[k].rem < timers[j].rem
Due == timers[DueIndex]
Rest == SubSeq(timers, 1, DueIndex - 1) \o SubSeq(timers, DueIndex + 1, Len(timers))

MinRem == CHOOSE d \in {timers[k].rem : k \in 1..Len(timers)} :
              \A k \in 1..Len(timers) : d <= timers[k].rem

\* the pending timeouts after dt milliseconds
Elapse(pending, dt) ==
    SubSeq([k \in 1..Len(pending) |-> [pending[k] EXCEPT !.rem = @ - dt]],
           1, Len(pending))

\* the tokens on screen after dt milliseconds
Age(objects, dt) ==
    SubSeq([k \in 1..Len(objects) |-> [objects[k] EXCEPT !.sinceSpawn = @ + dt]],
           1, Len(objects))

advanceTime ==
    /\ timers # <<>>
    /\ ~HasDue
    /\ timers' = Elapse(timers, MinRem)
    /\ activeObjects' = Age(activeObjects, MinRem)
    /\ UNCHANGED <<phase, countdown, roundNumber, score, currentRule,
                   friendsClicked, reactionTotal, roundsCleared, roundFriendHits,
                   deathScoreRef, roundFriendHitsRef, timersRef, expiryTimersRef,
                   closureScore, runNo, lateCount, clickCount, clickTimes, genVars, fnVars, lbVars, idVars>>
    /\ staleOrb' = NoObject

\* time passes LateMs beyond the next timeout: the browser runs it late
advanceTimeLate ==
    /\ timers # <<>>
    /\ ~HasDue
    /\ lateCount < MaxLate
    /\ timers' = Elapse(timers, MinRem + LateMs)
    /\ activeObjects' = Age(activeObjects, MinRem + LateMs)
    /\ lateCount' = lateCount + 1
    /\ UNCHANGED <<phase, countdown, roundNumber, score, currentRule,
                   friendsClicked, reactionTotal, roundsCleared, roundFriendHits,
                   deathScoreRef, roundFriendHitsRef, timersRef, expiryTimersRef,
                   closureScore, runNo, clickCount, clickTimes, genVars, fnVars, lbVars, idVars>>
    /\ staleOrb' = NoObject

countdownTick ==
    /\ HasDue
    /\ Due.kind = "countdown"
    /\ countdown' = Due.arg
    /\ timers' = Rest
    /\ UNCHANGED <<phase, roundNumber, score, activeObjects, currentRule,
                   friendsClicked, reactionTotal, roundsCleared, roundFriendHits,
                   deathScoreRef, roundFriendHitsRef, timersRef, expiryTimersRef,
                   closureScore, runNo, lateCount, clickCount, clickTimes, genVars, fnVars, lbVars, idVars>>
    /\ staleOrb' = NoObject

\* showRuleThenStart that puts the rule of the round after nextRound on the card
showRuleThenStartNextCard(nextRound, pending, tracked) ==
    LET startTimer == Timer(<<runNo, "ruleCard", nextRound, 0>>, "ruleCard",
                            RULE_CARD_MS, nextRound, 0, NoObject)
    IN  /\ roundNumber' = nextRound
        /\ currentRule' = buildRule(nextRound + 1)
        /\ phase' = "ruleCard"
        /\ timers' = Append(pending, startTimer)
        /\ timersRef' = tracked \cup {startTimer.id}

\* showRuleThenStart that starts the round at once, without the rule card
showRuleThenStartNoCard(nextRound, pending, tracked) ==
    LET startTimer == Timer(<<runNo, "ruleCard", nextRound, 0>>, "ruleCard",
                            RULE_CARD_MS, nextRound, 0, NoObject)
    IN  /\ roundNumber' = nextRound
        /\ currentRule' = buildRule(nextRound)
        /\ phase' = "playing"
        /\ timers' = Append(pending, startTimer)
        /\ timersRef' = tracked \cup {startTimer.id}

\* showRuleThenStart(nextRound), its timeout appended to pending
showRuleThenStart(nextRound, pending, tracked) ==
    LET startTimer == Timer(<<runNo, "ruleCard", nextRound, 0>>, "ruleCard",
                            RULE_CARD_MS, nextRound, 0, NoObject)
    IN  /\ roundNumber' = nextRound
        /\ currentRule' = buildRule(nextRound)
        /\ phase' = "ruleCard"
        /\ timers' = Append(pending, startTimer)
        /\ timersRef' = tracked \cup {startTimer.id}

\* triggerDeath without its clearAllTimers()
triggerDeathKeepsTimers(pending, seenScore) ==
    /\ timers' = pending
    /\ timersRef' = timersRef
    /\ expiryTimersRef' = expiryTimersRef
    /\ activeObjects' = <<>>
    /\ phase' = "dead"
    /\ deathScoreRef' = seenScore

\* triggerDeath as created in a render that saw the score seenScore
triggerDeath(pending, seenScore) ==
    /\ timers' = clearAllTimers(pending)
    /\ timersRef' = {}
    /\ expiryTimersRef' = {}
    /\ activeObjects' = <<>>
    /\ phase' = "dead"
    /\ deathScoreRef' = seenScore

\* the timeout of beginRun that starts the first rule card
startTimerFire ==
    /\ HasDue
    /\ Due.kind = "start"
    /\ showRuleThenStart(1, Rest, timersRef)
    /\ UNCHANGED <<countdown, score, activeObjects, friendsClicked, reactionTotal,
                   roundsCleared, roundFriendHits, deathScoreRef, roundFriendHitsRef,
                   expiryTimersRef, closureScore, runNo, lateCount, clickCount,
                   clickTimes, genVars, fnVars, lbVars, idVars>>
    /\ staleOrb' = NoObject

\* roundTimers that schedules the spawns in reverse: the last token first
roundTimersReversed(run, nextRound, rule, objects) ==
    LET spawnTimer(k) ==
            Timer(<<run, "spawn", nextRound, k - 1>>, "spawn",
                  (Len(objects) - k) * rule.config.spawnDelayMs, nextRound, k - 1, objects[k])
        endTimer ==
            Timer(<<run, "roundEnd", nextRound, 0>>, "roundEnd",
                  (Len(objects) - 1) * rule.config.spawnDelayMs
                      + rule.config.objectVisibleMs + 30,
                  nextRound, 0, NoObject)
    IN  Append(SubSeq([k \in 1..Len(objects) |-> spawnTimer(k)], 1, Len(objects)),
               endTimer)

\* roundTimers without the round-end timeout
roundTimersNoEnd(run, nextRound, rule, objects) ==
    LET spawnTimer(k) ==
            Timer(<<run, "spawn", nextRound, k - 1>>, "spawn",
                  (k - 1) * rule.config.spawnDelayMs, nextRound, k - 1, objects[k])
    IN  SubSeq([k \in 1..Len(objects) |-> spawnTimer(k)], 1, Len(objects))

\* the timeouts that the rule-card timeout registers: one spawn per object,
\* then the round end
roundTimers(run, nextRound, rule, objects) ==
    LET spawnTimer(k) ==
            Timer(<<run, "spawn", nextRound, k - 1>>, "spawn",
                  (k - 1) * rule.config.spawnDelayMs, nextRound, k - 1, objects[k])
        endTimer ==
            Timer(<<run, "roundEnd", nextRound, 0>>, "roundEnd",
                  (Len(objects) - 1) * rule.config.spawnDelayMs
                      + rule.config.objectVisibleMs + 30,
                  nextRound, 0, NoObject)
    IN  Append(SubSeq([k \in 1..Len(objects) |-> spawnTimer(k)], 1, Len(objects)),
               endTimer)

\* ruleCardEnd that leaves the hit counter of the previous round in place
ruleCardEndKeepsHits ==
    /\ HasDue
    /\ Due.kind = "ruleCard"
    /\ Due.round <= MaxRound
    /\ \E friendSlots \in FriendSlotChoices, rnd \in RndSet(buildRule(Due.round)) :
        \E built \in {buildRoundWith(Due.round, friendSlots, [i \in 0..19 |-> rnd], runNo)} :
        \E scheduled \in {roundTimers(runNo, Due.round, built.rule, built.objects)} :
            /\ activeObjects' = <<>>
            /\ currentRule' = built.rule
            /\ phase' = "playing"
            /\ roundFriendHitsRef' = roundFriendHitsRef
            /\ roundFriendHits' = roundFriendHits
            /\ timers' = Rest \o scheduled
            /\ timersRef' = timersRef \cup {scheduled[k].id : k \in 1..Len(scheduled)}
    /\ UNCHANGED <<countdown, roundNumber, score, friendsClicked, reactionTotal,
                   roundsCleared, deathScoreRef, expiryTimersRef, closureScore,
                   runNo, lateCount, clickCount, clickTimes, genVars, fnVars, lbVars, idVars>>
    /\ staleOrb' = NoObject

\* the timeout of showRuleThenStart that ends the rule card and starts the round
ruleCardEnd ==
    /\ HasDue
    /\ Due.kind = "ruleCard"
    /\ Due.round <= MaxRound
    /\ \E friendSlots \in FriendSlotChoices, rnd \in RndSet(buildRule(Due.round)) :
        \E built \in {buildRoundWith(Due.round, friendSlots, [i \in 0..19 |-> rnd], runNo)} :
        \E scheduled \in {roundTimers(runNo, Due.round, built.rule, built.objects)} :
            /\ activeObjects' = <<>>
            /\ currentRule' = built.rule
            /\ phase' = "playing"
            /\ roundFriendHitsRef' = 0
            /\ roundFriendHits' = 0
            /\ timers' = Rest \o scheduled
            /\ timersRef' = timersRef \cup {scheduled[k].id : k \in 1..Len(scheduled)}
    /\ UNCHANGED <<countdown, roundNumber, score, friendsClicked, reactionTotal,
                   roundsCleared, deathScoreRef, expiryTimersRef, closureScore,
                   runNo, lateCount, clickCount, clickTimes, genVars, fnVars, lbVars, idVars>>
    /\ staleOrb' = NoObject

\* the spawn timeout of one token
spawnObject ==
    /\ HasDue
    /\ Due.kind = "spawn"
    /\ LET spawnedObject == [Due.object EXCEPT !.sinceSpawn = 0]
           expiryTimer == Timer(<<Due.id[1], "expiry", Due.round, Due.arg>>, "expiry",
                                buildRule(Due.round).config.objectVisibleMs,
                                Due.round, Due.arg, spawnedObject)
       IN  /\ activeObjects' = Append(activeObjects, spawnedObject)
           /\ timers' = Append(Rest, expiryTimer)
           /\ expiryTimersRef' =
                  {e \in expiryTimersRef : e.orb # spawnedObject.id}
                      \cup {[orb |-> spawnedObject.id, timer |-> expiryTimer.id]}
    /\ UNCHANGED <<phase, countdown, roundNumber, score, currentRule, friendsClicked,
                   reactionTotal, roundsCleared, roundFriendHits, deathScoreRef,
                   roundFriendHitsRef, timersRef, closureScore, runNo, lateCount,
                   clickCount, clickTimes, genVars, fnVars, lbVars, idVars>>
    /\ staleOrb' = NoObject

\* the token with this id as the last render shows it, NoObject if it shows none
OnScreen(id) ==
    IF \E k \in 1..Len(activeObjects) : activeObjects[k].id = id
    THEN activeObjects[CHOOSE k \in 1..Len(activeObjects) : activeObjects[k].id = id]
    ELSE NoObject

\* expireObject that pays the expiry points for a friend as well
expireObjectPaysFriend ==
    /\ HasDue
    /\ Due.kind = "expiry"
    /\ activeObjects' = FilterOut(activeObjects, Due.object.id)
    /\ score' = score + FALSE_EXPIRE_POINTS
    /\ expiryTimersRef' = {e \in expiryTimersRef : e.orb # Due.object.id}
    /\ timers' = Rest
    /\ UNCHANGED <<phase, countdown, roundNumber, currentRule, friendsClicked,
                   reactionTotal, roundsCleared, roundFriendHits, deathScoreRef,
                   roundFriendHitsRef, timersRef, closureScore, runNo, lateCount,
                   clickCount, clickTimes, genVars, fnVars, lbVars, idVars>>
    /\ staleOrb' = OnScreen(Due.object.id)

\* the expiry timeout of one token; its button stays in the document until
\* React commits the next render
expireObject ==
    /\ HasDue
    /\ Due.kind = "expiry"
    /\ activeObjects' = FilterOut(activeObjects, Due.object.id)
    /\ score' = IF ~Due.object.isFriend THEN score + FALSE_EXPIRE_POINTS ELSE score
    /\ expiryTimersRef' = {e \in expiryTimersRef : e.orb # Due.object.id}
    /\ timers' = Rest
    /\ UNCHANGED <<phase, countdown, roundNumber, currentRule, friendsClicked,
                   reactionTotal, roundsCleared, roundFriendHits, deathScoreRef,
                   roundFriendHitsRef, timersRef, closureScore, runNo, lateCount,
                   clickCount, clickTimes, genVars, fnVars, lbVars, idVars>>
    /\ staleOrb' = OnScreen(Due.object.id)

\* roundEndFail with the bonus added before the hit count is looked at
roundEndFailAfterBonus ==
    /\ HasDue
    /\ Due.kind = "roundEnd"
    /\ roundFriendHitsRef < getMinimumHits(Due.round)
    /\ score' = score + roundClearBonus(Due.round)
    /\ triggerDeath(Rest, closureScore)
    /\ UNCHANGED <<countdown, roundNumber, currentRule, friendsClicked,
                   reactionTotal, roundsCleared, roundFriendHits, roundFriendHitsRef,
                   closureScore, runNo, lateCount, clickCount, clickTimes, genVars, fnVars, lbVars, idVars>>
    /\ staleOrb' = NoObject

\* the round-end timeout, too few hits: triggerDeath of the closure
roundEndFail ==
    /\ HasDue
    /\ Due.kind = "roundEnd"
    /\ roundFriendHitsRef < getMinimumHits(Due.round)
    /\ triggerDeath(Rest, closureScore)
    /\ UNCHANGED <<countdown, roundNumber, score, currentRule, friendsClicked,
                   reactionTotal, roundsCleared, roundFriendHits, roundFriendHitsRef,
                   closureScore, runNo, lateCount, clickCount, clickTimes, genVars, fnVars, lbVars, idVars>>
    /\ staleOrb' = NoObject

\* roundEndClear without its setRoundsCleared(nextRound)
roundEndClearKeepsCleared ==
    /\ HasDue
    /\ Due.kind = "roundEnd"
    /\ ~(roundFriendHitsRef < getMinimumHits(Due.round))
    /\ score' = score + roundClearBonus(Due.round)
    /\ roundsCleared' = roundsCleared
    /\ showRuleThenStart(Due.round + 1, Rest, timersRef)
    /\ UNCHANGED <<countdown, activeObjects, friendsClicked, reactionTotal,
                   roundFriendHits, deathScoreRef, roundFriendHitsRef,
                   expiryTimersRef, closureScore, runNo, lateCount, clickCount,
                   clickTimes, genVars, fnVars, lbVars, idVars>>
    /\ staleOrb' = NoObject

\* roundEndClear that counts the round that starts, not the one that ended
roundEndClearCountsNext ==
    /\ HasDue
    /\ Due.kind = "roundEnd"
    /\ ~(roundFriendHitsRef < getMinimumHits(Due.round))
    /\ score' = score + roundClearBonus(Due.round + 1)
    /\ roundsCleared' = Due.round + 1
    /\ showRuleThenStart(Due.round + 1, Rest, timersRef)
    /\ UNCHANGED <<countdown, activeObjects, friendsClicked, reactionTotal,
                   roundFriendHits, deathScoreRef, roundFriendHitsRef,
                   expiryTimersRef, closureScore, runNo, lateCount, clickCount,
                   clickTimes, genVars, fnVars, lbVars, idVars>>
    /\ staleOrb' = NoObject

\* the round-end timeout, enough hits
roundEndClear ==
    /\ HasDue
    /\ Due.kind = "roundEnd"
    /\ ~(roundFriendHitsRef < getMinimumHits(Due.round))
    /\ score' = score + roundClearBonus(Due.round)
    /\ roundsCleared' = Due.round
    /\ showRuleThenStart(Due.round + 1, Rest, timersRef)
    /\ UNCHANGED <<countdown, activeObjects, friendsClicked, reactionTotal,
                   roundFriendHits, deathScoreRef, roundFriendHitsRef,
                   expiryTimersRef, closureScore, runNo, lateCount, clickCount,
                   clickTimes, genVars, fnVars, lbVars, idVars>>
    /\ staleOrb' = NoObject

\* pending without the expiry timeout that expiryTimersRef holds for the token
ClearExpiryOf(pending, id) ==
    RemoveTimers(pending, {e.timer : e \in {x \in expiryTimersRef : x.orb = id}})

\* handleObjectClick(orb) that leaves the expiry timeout of a clicked friend pending
clickOrbKeepsExpiry(orb, seenScore) ==
    LET reactionMs == Max2(0, orb.sinceSpawn)
        clickPoints == Max2(0, 2000 - reactionMs)
    IN  IF phase # "playing" THEN UNCHANGED vars
        ELSE IF ~orb.isFriend THEN
            /\ triggerDeath(ClearExpiryOf(timers, orb.id), seenScore)
            /\ UNCHANGED <<countdown, roundNumber, score, currentRule, friendsClicked,
                           reactionTotal, roundsCleared, roundFriendHits,
                           roundFriendHitsRef, closureScore, runNo, lateCount,
                           clickCount, clickTimes, genVars, fnVars, lbVars, idVars>>
            /\ staleOrb' = NoObject
        ELSE
            /\ clickCount < MaxFriendClicks
            /\ clickCount' = clickCount + 1
            /\ clickTimes' = Append(clickTimes, reactionMs)
            /\ timers' = timers
            /\ expiryTimersRef' = expiryTimersRef
            /\ activeObjects' = FilterOut(activeObjects, orb.id)
            /\ score' = score + clickPoints
            /\ friendsClicked' = friendsClicked + 1
            /\ reactionTotal' = reactionTotal + reactionMs
            /\ roundFriendHitsRef' = roundFriendHitsRef + 1
            /\ roundFriendHits' = roundFriendHitsRef + 1
            /\ UNCHANGED <<phase, countdown, roundNumber, currentRule, roundsCleared,
                           deathScoreRef, timersRef, closureScore, runNo, lateCount,
                           genVars, fnVars, lbVars, idVars>>
            /\ staleOrb' = NoObject

\* handleObjectClick whose points are not floored at zero
clickOrbNoFloor(orb, seenScore) ==
    LET reactionMs == Max2(0, orb.sinceSpawn)
        clickPoints == 2000 - reactionMs
    IN  IF phase # "playing" THEN UNCHANGED vars
        ELSE IF ~orb.isFriend THEN
            /\ triggerDeath(ClearExpiryOf(timers, orb.id), seenScore)
            /\ UNCHANGED <<countdown, roundNumber, score, currentRule, friendsClicked,
                           reactionTotal, roundsCleared, roundFriendHits,
                           roundFriendHitsRef, closureScore, runNo, lateCount,
                           clickCount, clickTimes, genVars, fnVars, lbVars, idVars>>
            /\ staleOrb' = NoObject
        ELSE
            /\ clickCount < MaxFriendClicks
            /\ clickCount' = clickCount + 1
            /\ clickTimes' = Append(clickTimes, reactionMs)
            /\ timers' = ClearExpiryOf(timers, orb.id)
            /\ expiryTimersRef' = {e \in expiryTimersRef : e.orb # orb.id}
            /\ activeObjects' = FilterOut(activeObjects, orb.id)
            /\ score' = score + clickPoints
            /\ friendsClicked' = friendsClicked + 1
            /\ reactionTotal' = reactionTotal + reactionMs
            /\ roundFriendHitsRef' = roundFriendHitsRef + 1
            /\ roundFriendHits' = roundFriendHitsRef + 1
            /\ UNCHANGED <<phase, countdown, roundNumber, currentRule, roundsCleared,
                           deathScoreRef, timersRef, closureScore, runNo, lateCount,
                           genVars, fnVars, lbVars, idVars>>
            /\ staleOrb' = NoObject

\* handleObjectClick(orb) of a render that saw the score seenScore
clickOrb(orb, seenScore) ==
    LET reactionMs == Max2(0, orb.sinceSpawn)
        clickPoints == Max2(0, 2000 - reactionMs)
    IN  IF phase # "playing" THEN UNCHANGED vars
        ELSE IF ~orb.isFriend THEN
            /\ triggerDeath(ClearExpiryOf(timers, orb.id), seenScore)
            /\ UNCHANGED <<countdown, roundNumber, score, currentRule, friendsClicked,
                           reactionTotal, roundsCleared, roundFriendHits,
                           roundFriendHitsRef, closureScore, runNo, lateCount,
                           clickCount, clickTimes, genVars, fnVars, lbVars, idVars>>
            /\ staleOrb' = NoObject
        ELSE
            /\ clickCount < MaxFriendClicks
            /\ clickCount' = clickCount + 1
            /\ clickTimes' = Append(clickTimes, reactionMs)
            /\ timers' = ClearExpiryOf(timers, orb.id)
            /\ expiryTimersRef' = {e \in expiryTimersRef : e.orb # orb.id}
            /\ activeObjects' = FilterOut(activeObjects, orb.id)
            /\ score' = score + clickPoints
            /\ friendsClicked' = friendsClicked + 1
            /\ reactionTotal' = reactionTotal + reactionMs
            /\ roundFriendHitsRef' = roundFriendHitsRef + 1
            /\ roundFriendHits' = roundFriendHitsRef + 1
            /\ UNCHANGED <<phase, countdown, roundNumber, currentRule, roundsCleared,
                           deathScoreRef, timersRef, closureScore, runNo, lateCount,
                           genVars, fnVars, lbVars, idVars>>
            /\ staleOrb' = NoObject

\* handleObjectClick(orb) for the k-th token on screen
clickObject(k) == clickOrb(activeObjects[k], score)

\* a click on the button of the token that has just expired, delivered
\* before React has committed the render that removes it; that render's
\* closures saw the score before the expiry
staleClick ==
    /\ staleOrb # NoObject
    /\ clickOrb(staleOrb,
                IF staleOrb.isFriend THEN score ELSE score - FALSE_EXPIRE_POINTS)

handleObjectClick == \E k \in 1..Len(activeObjects) : clickObject(k)

Next ==
    \/ beginRun
    \/ advanceTime
    \/ advanceTimeLate
    \/ countdownTick
    \/ startTimerFire
    \/ ruleCardEnd
    \/ spawnObject
    \/ expireObject
    \/ roundEndFail
    \/ roundEndClear
    \/ handleObjectClick
    \/ staleClick

Spec == Init /\ [][Next]_vars

\* the browser runs a timeout that is due, and time passes while none is
TimerStep ==
    \/ advanceTime
    \/ countdownTick
    \/ startTimerFire
    \/ ruleCardEnd
    \/ spawnObject
    \/ expireObject
    \/ roundEndFail
    \/ roundEndClear

\* the one beginRun of a run that is followed by no other: the button of the
\* start screen is pressed
beginOnlyRun ==
    /\ phase = "start"
    /\ runNo = 0
    /\ beginRun

LiveNext ==
    \/ beginOnlyRun
    \/ advanceTimeLate
    \/ TimerStep
    \/ handleObjectClick
    \/ staleClick

\* one run of the component with timeouts that are run eventually; the
\* player and the late dispatch are under no obligation
LiveSpec == Init /\ [][LiveNext]_vars /\ WF_vars(TimerStep)


(***************************************************************************)
(* Properties of the component, checked under Spec.                        *)
(***************************************************************************)
PendingKinds == {timers[k].kind : k \in 1..Len(timers)}
RoundKinds == {"spawn", "expiry", "roundEnd"}

\* the round-end timeout runs in this step
RoundEndEvaluation == roundEndFail \/ roundEndClear

\* C2: after beginRun no timeout registered before it is left to run: every
\* pending timeout was registered in the current run, so no earlier callback
\* can touch the new run's score, round number, phase, hits or tokens.
C2_NoStaleTimerAfterBeginRun ==
    \A k \in 1..Len(timers) : timers[k].id[1] = runNo

C2_Witness ==
    /\ runNo = 2
    /\ phase = "ruleCard"
    /\ activeObjects # <<>>
    /\ score = 0
    /\ timers # <<>>

\* C3: in phase playing a click on an active token that is no friend makes the
\* phase dead in that step, whatever the round, the hits and the tokens yet to
\* spawn, empties activeObjects and leaves no spawn, expiry or round-end
\* timeout pending.
C3_FalseClickKillsAtOnce ==
    [][\A k \in 1..Len(activeObjects) :
          (phase = "playing" /\ ~activeObjects[k].isFriend /\ clickObject(k)) =>
              /\ phase' = "dead"
              /\ activeObjects' = <<>>
              /\ \A j \in 1..Len(timers') : timers'[j].kind \notin RoundKinds]_vars

C3_Witness ==
    /\ phase = "dead"
    /\ runNo = 1
    /\ score = 20
    /\ roundFriendHitsRef = 1
    /\ timers = <<>>

\* C5: the round-end timeout runs only when every token of the round has been
\* spawned and none of them is still on screen: no spawn or expiry timeout is
\* pending and activeObjects is empty.
C5_RoundEndAfterAllTokens ==
    [][RoundEndEvaluation =>
          /\ activeObjects = <<>>
          /\ "spawn" \notin PendingKinds
          /\ "expiry" \notin PendingKinds]_vars

\* C6: when the round-end timeout of round r finds at least getMinimumHits(r)
\* hits, the phase becomes ruleCard with round r + 1, floor(500 * r^1.2) is
\* added to the score, roundsCleared becomes r, and the timeout is gone, so
\* the bonus is added once.
C6_ClearedRoundAdvances ==
    [][(RoundEndEvaluation /\ roundFriendHitsRef >= getMinimumHits(roundNumber)) =>
          /\ phase' = "ruleCard"
          /\ roundNumber' = roundNumber + 1
          /\ score' = score + roundClearBonus(roundNumber)
          /\ roundsCleared' = roundNumber
          /\ \A j \in 1..Len(timers') : timers'[j].kind # "roundEnd"]_vars

C6_Witness ==
    /\ phase = "ruleCard"
    /\ roundNumber = 2
    /\ roundsCleared = 1
    /\ roundFriendHitsRef = 1

\* C7: when the round-end timeout of round r finds fewer than
\* getMinimumHits(r) hits, the phase becomes dead, the score gets no bonus,
\* roundsCleared stays r - 1 and no timeout is left that could start a round.
C7_ShortRoundDies ==
    [][(RoundEndEvaluation /\ roundFriendHitsRef < getMinimumHits(roundNumber)) =>
          /\ phase' = "dead"
          /\ score' = score
          /\ roundsCleared' = roundsCleared
          /\ roundsCleared = roundNumber - 1
          /\ roundNumber' = roundNumber
          /\ timers' = <<>>]_vars

C7_Witness ==
    /\ phase = "dead"
    /\ roundNumber = 1
    /\ roundsCleared = 0
    /\ roundFriendHitsRef = 0
    /\ score >= 150

RECURSIVE SumClickPoints(_)
SumClickPoints(times) ==
    IF times = <<>> THEN 0
    ELSE Max2(0, 2000 - Head(times)) + SumClickPoints(Tail(times))

RECURSIVE SumBonus(_)
SumBonus(r) == IF r = 0 THEN 0 ELSE roundClearBonus(r) + SumBonus(r - 1)

\* C8: when round r has been cleared with friend clicks at reaction times
\* t1..tk and no other click, every round so far has added the sum of
\* max(0, 2000 - ti), (20 - 4) * 10 and floor(500 * r^1.2) to the score; round
\* 1 with one friend click reaches the rule card of round 2 with the score
\* friend points + 160 + 500.
C8_ClearedRoundScore ==
    (phase = "ruleCard" /\ roundNumber > 1) =>
        score = SumClickPoints(clickTimes)
                    + (roundNumber - 1) * (20 - 4) * FALSE_EXPIRE_POINTS
                    + SumBonus(roundNumber - 1)

\* C10: once the phase is dead it stays dead until beginRun: a step that
\* leaves dead is a beginRun, and it leads to countdown.
C10_DeadUntilBeginRun ==
    [][phase = "dead" =>
          \/ phase' = "dead"
          \/ phase' = "countdown" /\ runNo' = runNo + 1 /\ score' = 0]_vars

C10_Witness ==
    /\ phase = "countdown"
    /\ runNo = 2
    /\ closureScore > 0
    /\ activeObjects = <<>>
    /\ timersRef # {}

\* C11: a beginRun, from the start screen, from dead or from anywhere else,
\* sets the phase to countdown and score to 0, roundNumber to 1, roundsCleared,
\* friendsClicked and reactionTotal to 0 and the round's hit counter to 0,
\* whatever they were before.
C11_BeginRunResets ==
    [][runNo' # runNo =>
          /\ phase' = "countdown"
          /\ countdown' = 3
          /\ score' = 0
          /\ roundNumber' = 1
          /\ roundsCleared' = 0
          /\ friendsClicked' = 0
          /\ reactionTotal' = 0
          /\ roundFriendHitsRef' = 0
          /\ roundFriendHits' = 0]_vars

C11_Witness ==
    /\ runNo = 2
    /\ phase = "countdown"
    /\ score = 0
    /\ friendsClicked = 0
    /\ reactionTotal = 0
    /\ clickCount = 1
    /\ closureScore > 500

\* C13: when the visibility window of an unclicked token elapses in phase
\* playing, the token leaves the active set, the score grows by 10 for a
\* false token and by nothing for a friend, the hit counter keeps its value
\* and the run does not end
C13_ExpiryInPlaying ==
    [][(expireObject /\ phase = "playing" /\ OnScreen(Due.object.id) # NoObject)
         => /\ \A k \in 1..Len(activeObjects') : activeObjects'[k].id # Due.object.id
            /\ Len(activeObjects') = Len(activeObjects) - 1
            /\ score' = score + (IF Due.object.isFriend THEN 0 ELSE 10)
            /\ roundFriendHitsRef' = roundFriendHitsRef
            /\ roundFriendHits' = roundFriendHits
            /\ phase' = "playing"]_vars

\* a false token has just expired unclicked in phase playing and paid its
\* points, in a round where friends have expired and one has been clicked
C13_Witness ==
    /\ phase = "playing"
    /\ staleOrb # NoObject
    /\ ~staleOrb.isFriend
    /\ score >= 10
    /\ roundFriendHitsRef = 1
    /\ Len(activeObjects) > 0

\* the shape, hue, dotCount and notchAngle of a token
coreOf(orb) ==
    [shape |-> orb.shape, hue |-> orb.hue, dotCount |-> orb.dotCount,
     notchAngle |-> orb.notchAngle]

\* C20: buildRule(r) depends on the round number alone, so the friend shown
\* on the rule card of round r is the friend against which the tokens of
\* round r are generated and matched: when the card ends, the rule that
\* buildRound builds has the friend of the card, and every token it marks
\* as a friend carries exactly that friend's attribute values.
C20_CardFriendIsRoundFriend ==
    [][ruleCardEnd =>
          /\ currentRule.levelNumber = Due.round
          /\ currentRule'.levelNumber = Due.round
          /\ currentRule'.friend = currentRule.friend
          /\ \A k \in 1..Len(timers') :
                (/\ timers'[k].kind = "spawn"
                 /\ timers'[k].id[1] = runNo
                 /\ timers'[k].round = Due.round
                 /\ timers'[k].object.isFriend)
                    => coreOf(timers'[k].object) = currentRule.friend]_vars

\* the round of a second run has started: the rule card is over, the friend
\* tokens wait for their spawn timeouts and the card's friend is on display
C20_Witness ==
    /\ phase = "playing"
    /\ runNo = 2
    /\ currentRule.levelNumber = 1
    /\ currentRule.friend.shape = "square"
    /\ Cardinality({k \in 1..Len(timers) :
                       /\ timers[k].kind = "spawn"
                       /\ timers[k].object.isFriend
                       /\ coreOf(timers[k].object) = currentRule.friend}) = 4

\* C23: whenever a run ends, by a wrong click or by missing the minimum-hits
\* threshold at round end, the final score recorded for the death screen
\* and for submission (deathScoreRef) is the score the run has accumulated
\* at that moment, not a value captured earlier or left from an earlier run.
C23_DeathScoreIsRunScore ==
    [][((handleObjectClick \/ roundEndFail) /\ phase # "dead" /\ phase' = "dead")
          => deathScoreRef' = score]_vars

\* C28: whenever the phase is not playing (start, countdown, ruleCard or
\* dead) the active token set is empty: no token of a round stays active
\* after the round has been cleared or failed.
\* It is stated as the step that has to preserve it: beginRun is left out,
\* because its button is rendered on the start and dead screens only, where
\* it finds the set empty and leaves it alone.
C28_NoTokensOutsidePlaying ==
    [][((phase # "playing" => activeObjects = <<>>) /\ runNo' = runNo) =>
          (phase' # "playing" => activeObjects' = <<>>)]_vars

FriendsGone ==
    4 - Cardinality({k \in 1..Len(timers) :
                        timers[k].kind = "spawn" /\ timers[k].object.isFriend})
      - Cardinality({k \in 1..Len(activeObjects) : activeObjects[k].isFriend})

C31_FriendClickScoresAndStays ==
    [][\A k \in 1..Len(activeObjects) :
          (phase = "playing" /\ activeObjects[k].isFriend /\ clickObject(k)) =>
              /\ activeObjects' = SubSeq(activeObjects, 1, k - 1)
                                    \o SubSeq(activeObjects, k + 1, Len(activeObjects))
              /\ score' = score + Max2(0, 2000 - activeObjects[k].sinceSpawn)
              /\ roundFriendHitsRef' = roundFriendHitsRef + 1
              /\ \E j \in 1..Len(timers) :
                    timers[j].kind = "expiry" /\ timers[j].object.id = activeObjects[k].id
              /\ \A j \in 1..Len(timers') :
                    timers'[j].kind = "expiry" => timers'[j].object.id # activeObjects[k].id
              /\ Len(timers') = Len(timers) - 1
              /\ phase' = "playing"]_vars

\* a friend has been clicked some time after its spawn and the round goes on
C31_Witness ==
    /\ phase = "playing"
    /\ roundNumber = 1
    /\ roundFriendHitsRef = 1
    /\ Len(clickTimes) = 1
    /\ clickTimes[1] > 0
    /\ score = 2000 - clickTimes[1]
    /\ activeObjects # <<>>

\* C32: after the beginRun of a run in which no other follows, the phase is
\* countdown, the phase after countdown is ruleCard with round 1 and the
\* phase after that rule card is playing; with timeouts that are run
\* eventually each of them is reached, whatever is clicked meanwhile.
C32_CountdownCardPlaying ==
    /\ [][/\ runNo' # runNo => phase' = "countdown"
          /\ (phase = "countdown" /\ phase' # "countdown") =>
                (phase' = "ruleCard" /\ roundNumber' = 1)
          /\ (phase = "ruleCard" /\ phase' # "ruleCard") => phase' = "playing"]_vars
    /\ (phase = "countdown") ~> (phase = "ruleCard" /\ roundNumber = 1)
    /\ (phase = "ruleCard" /\ roundNumber = 1) ~> (phase = "playing")

\* the first round has just begun to play, 3000 ms of countdown and 3000 ms
\* of rule card after beginRun
C32_Witness ==
    /\ phase = "playing"
    /\ runNo = 1
    /\ roundNumber = 1
    /\ countdown = 1
    /\ activeObjects = <<>>
    /\ Len(timers) = 21

\* C33: with timeouts that are run eventually and no other beginRun, every
\* phase playing ends, whatever is clicked or not clicked: the phase leaves
\* playing only for the rule card of the next round or for dead, and one of
\* the two is reached.
C33_PlayingEnds ==
    /\ [][(phase = "playing" /\ phase' # "playing") =>
             \/ phase' = "dead" /\ roundNumber' = roundNumber
             \/ phase' = "ruleCard" /\ roundNumber' = roundNumber + 1]_vars
    /\ \A round \in 1..MaxRound :
          (phase = "playing" /\ roundNumber = round) ~>
              (phase = "dead" \/ (phase = "ruleCard" /\ roundNumber = round + 1))

\* round 2 was played to its end without a click and failed at its round end
C33_Witness ==
    /\ phase = "dead"
    /\ roundNumber = 2
    /\ roundsCleared = 1
    /\ roundFriendHitsRef = 0
    /\ score >= 500 + 2 * 160
    /\ timers = <<>>

\* the token of a timeout belongs to the round (and build) of the token other
SameRound(token, other) == token.id[1] = other.id[1] /\ token.id[3] = other.id[3]

\* C34: within a round the tokens are spawned in the order of their index,
\* the spawn timeouts still pending are due in strictly increasing order of
\* index, the expiry of a token is due 2000 ms after its own spawn, and a
\* token that expires is the oldest token of its round still on screen
C34_SpawnAndExpiryInOrder ==
    /\ []( /\ \A j \in 1..Len(timers) : timers[j].kind = "spawn" =>
               \A k \in (j + 1)..Len(timers) :
                   (timers[k].kind = "spawn" /\ SameRound(timers[j].object, timers[k].object)) =>
                       (timers[j].arg < timers[k].arg /\ timers[j].rem < timers[k].rem)
           /\ \A j \in 1..Len(timers) : timers[j].kind = "expiry" =>
               \A k \in 1..Len(activeObjects) :
                   timers[j].object.id = activeObjects[k].id =>
                       timers[j].rem + activeObjects[k].sinceSpawn = 2000)
    /\ [][ /\ spawnObject =>
               /\ \A j \in 1..Len(timers) :
                      (timers[j].kind = "spawn" /\ SameRound(timers[j].object, Due.object)) =>
                          timers[j].arg >= Due.arg
               /\ \A k \in 1..Len(activeObjects) :
                      SameRound(activeObjects[k], Due.object) => activeObjects[k].id[2] < Due.arg
               /\ activeObjects'[Len(activeObjects')].id = Due.object.id
               /\ \E j \in 1..Len(timers') :
                      /\ timers'[j].kind = "expiry"
                      /\ timers'[j].object.id = Due.object.id
                      /\ timers'[j].rem = 2000
           /\ expireObject =>
               \A k \in 1..Len(activeObjects) :
                   SameRound(activeObjects[k], Due.object) =>
                       activeObjects[k].id[2] >= Due.object.id[2]]_vars

\* the last token of a round was just spawned: tokens 0..15 have expired in
\* turn, tokens 16..19 are on screen in the order of their spawn
C34_Witness ==
    /\ phase = "playing"
    /\ clickCount = 0
    /\ Len(activeObjects) = 4
    /\ \A k \in 1..4 : activeObjects[k].id[2] = 15 + k
    /\ activeObjects[4].sinceSpawn = 0
    /\ score >= 120

\* C35: from the first beginRun on, in every phase, roundsCleared is
\* roundNumber - 1; within a run roundNumber changes only by +1 and only in
\* the round-end timeout that finds at least getMinimumHits hits
C35_ClearedIsRoundMinusOne ==
    /\ [](runNo >= 1 => roundsCleared = roundNumber - 1)
    /\ [][(roundNumber' # roundNumber /\ runNo' = runNo) =>
              /\ roundNumber' = roundNumber + 1
              /\ RoundEndEvaluation
              /\ ~(roundFriendHitsRef < getMinimumHits(roundNumber))
              /\ roundsCleared' = roundNumber]_vars

\* round 1 was cleared and round 2 is being played
C35_Witness ==
    /\ phase = "playing"
    /\ roundNumber = 2
    /\ roundsCleared = 1
    /\ activeObjects # <<>>
    /\ activeObjects[1].id[1] = 2

\* C37: the score is never negative; no step lowers it except beginRun,
\* which sets it to 0
C37_ScoreNeverDecreases ==
    /\ [](score >= 0)
    /\ [][score' < score => (runNo' = runNo + 1 /\ phase' = "countdown" /\ score' = 0)]_vars

\* a second run is played after a first one that had scored: the score went
\* back to 0 at beginRun and has grown again
C37_Witness ==
    /\ runNo = 2
    /\ deathScoreRef = 0
    /\ phase = "playing"
    /\ score >= 20
    /\ friendsClicked = 0
    /\ clickCount = 1

\* C12: a click that arrives in a phase other than playing, or for a token
\* that is no longer in the active set, leaves the score, the hit counter,
\* the phase, the round number and the active set unchanged
C12_StrayClickIsNoOp ==
    [][(  (phase # "playing" /\ handleObjectClick)
       \/ (staleOrb # NoObject /\ OnScreen(staleOrb.id) = NoObject /\ staleClick))
         => UNCHANGED <<score, roundFriendHitsRef, roundFriendHits, phase,
                        roundNumber, activeObjects>>]_vars

(***************************************************************************)
(* The content generator on its own: a level number is drawn, then one of  *)
(* mutate(attr, false), makeFalseOrb and buildRound is applied to it with  *)
(* some outcome of the random draws.                                       *)
(***************************************************************************)
\* draws of a round in which only the roll varies
RollRndSet(rule) ==
    {rnd \in RndSet(rule) :
        /\ rnd.shapeSeed = 0 /\ rnd.hueSeed = 0 /\ rnd.dotDraw = 0 /\ rnd.notchDraw0 = 0
        /\ ~rnd.hueLower /\ rnd.notchDraw1 = 0 /\ rnd.notchDraw2 = 0
        /\ ~rnd.fixHueLower /\ rnd.fixNotchDraw1 = 0 /\ rnd.fixNotchDraw2 = 0}

GenInit ==
    /\ GameInit
    /\ IdIdle
    /\ FnIdle
    /\ BoardIdle
    /\ genStage = "input"
    /\ genLevel \in 1..MaxLevel
    /\ genAttr = "none"
    /\ genOrb = NoCore
    /\ genObjects = <<>>

genMutate ==
    /\ genStage = "input"
    /\ \E rule \in {buildRule(genLevel)} :
        \E k \in 1..Len(rule.config.attributes), rnd \in RndSet(rule) :
            /\ genAttr' = rule.config.attributes[k]
            /\ genOrb' = mutate(rule, makeDraft(rule, rnd), rule.config.attributes[k],
                                FALSE, rnd)
    /\ genStage' = "mutate"
    /\ UNCHANGED <<gameVars, fnVars, lbVars, idVars, genLevel, genObjects>>

genMakeFalseOrb ==
    /\ genStage = "input"
    /\ \E rule \in {buildRule(genLevel)} :
        \E rnd \in RndSet(rule) :
            genOrb' = makeFalseOrb(rule, rnd)
    /\ genStage' = "falseOrb"
    /\ UNCHANGED <<gameVars, fnVars, lbVars, idVars, genLevel, genAttr, genObjects>>

genBuildRound ==
    /\ genStage = "input"
    /\ \E slotDraws \in SlotDrawSeqs, rnd \in RollRndSet(buildRule(genLevel)) :
            genObjects' = buildRound(genLevel, slotDraws, [i \in 0..19 |-> rnd], 0).objects
    /\ genStage' = "round"
    /\ UNCHANGED <<gameVars, fnVars, lbVars, idVars, genLevel, genAttr, genOrb>>

GenNext ==
    \/ genMutate
    \/ genMakeFalseOrb
    \/ genBuildRound

GenSpec == GenInit /\ [][GenNext]_vars

(***************************************************************************)
(* Properties of the generator, checked under GenSpec.                     *)
(***************************************************************************)
attrValue(orb, attr) ==
    IF attr = "shape" THEN <<"shape", orb.shape>>
    ELSE IF attr = "color" THEN <<"hue", orb.hue>>
    ELSE IF attr = "dots" THEN <<"dotCount", orb.dotCount>>
    ELSE <<"notchAngle", orb.notchAngle>>

FalseObjects == {k \in 1..Len(genObjects) : ~genObjects[k].isFriend}
FriendObjects == {k \in 1..Len(genObjects) : genObjects[k].isFriend}

\* C1: no false token that makeFalseOrb returns, and so no token buildRound
\* emits with isFriend = false, satisfies the rule of its round (matchesRule
\* is false), whatever the random draws, the re-check included.
C1_FalseOrbNeverMatchesRule ==
    /\ genStage = "falseOrb" => ~matchesRule(genOrb, buildRule(genLevel))
    /\ genStage = "round" =>
          \A k \in FalseObjects : ~matchesRule(genObjects[k], buildRule(genLevel))

\* C9: mutate(attr, false) on an attribute active in the round never returns
\* the friend's value of that attribute, whatever the random draws.
C9_MutateFalseNeverFriendValue ==
    genStage = "mutate" =>
        attrValue(genOrb, genAttr) # attrValue(buildRule(genLevel).friend, genAttr)

\* C4: buildRound returns exactly 20 tokens, exactly 4 of them friends, at 4
\* distinct slots in 0..19, and each friend token carries the shape, hue,
\* dotCount and notchAngle of rule.friend.
C4_RoundHasFourExactFriends ==
    genStage = "round" =>
        LET friend == buildRule(genLevel).friend
        IN  /\ Len(genObjects) = 20
            /\ Cardinality(FriendObjects) = 4
            /\ Cardinality({genObjects[k].id[2] : k \in FriendObjects}) = 4
            /\ \A k \in FriendObjects :
                /\ genObjects[k].id[2] \in 0..19
                /\ genObjects[k].shape = friend.shape
                /\ genObjects[k].hue = friend.hue
                /\ genObjects[k].dotCount = friend.dotCount
                /\ genObjects[k].notchAngle = friend.notchAngle

C4_Witness ==
    /\ genStage = "round"
    /\ genLevel = 12
    /\ Len(genObjects) = 20
    /\ genObjects[1].isFriend
    /\ ~genObjects[20].isFriend


\* the active attributes of the level on which orb differs from the friend
Mismatches(orb, level) ==
    LET rule == buildRule(level)
    IN  {k \in 1..Len(rule.config.attributes) :
            attrValue(orb, rule.config.attributes[k])
                # attrValue(rule.friend, rule.config.attributes[k])}

\* C25: in a round with at least two active attributes, every false-friend
\* vector that makeFalseOrb returns differs from the friend on exactly one
\* active attribute (near miss) or on every active attribute (full
\* mismatch), never on another number of them.
C25_NearMissOrFullMismatch ==
    (genStage = "falseOrb" /\ Len(getLevelConfig(genLevel).attributes) >= 2) =>
        Cardinality(Mismatches(genOrb, genLevel))
            \in {1, Len(getLevelConfig(genLevel).attributes)}

\* orb takes every attribute from the level's pool; an attribute whose pool
\* is empty (maxDots = 0, notchPositions = 0) carries the placeholder 0
InPools(orb, config) ==
    /\ Includes(Slice(SHAPES, config.shapeCount), orb.shape)
    /\ Includes(Slice(FULL_PALETTE, config.paletteSize), orb.hue)
    /\ IF config.maxDots > 0 THEN orb.dotCount \in 1..config.maxDots
       ELSE orb.dotCount = 0
    /\ IF config.notchPositions > 0
       THEN \E slot \in 0..(config.notchPositions - 1) :
                orb.notchAngle = getNotchAngle(slot, config.notchPositions)
       ELSE orb.notchAngle = 0

\* C26: every attribute value of a generated token, friend or false friend,
\* is a member of that attribute's pool for the round: one of the first
\* shapeCount shapes, one of the first paletteSize palette hues, a dot count
\* in 1..maxDots and one of the notchPositions slot angles.
C26_ValuesFromPools ==
    /\ genStage \in {"mutate", "falseOrb"} =>
            InPools(genOrb, getLevelConfig(genLevel))
    /\ genStage = "round" =>
            \A k \in 1..Len(genObjects) :
                InPools(genObjects[k], getLevelConfig(genLevel))

\* the pool of an attribute under a level configuration, as attrValue pairs
Pool(config, attr) ==
    IF attr = "shape" THEN
        {<<"shape", SHAPES[k]>> : k \in 1..config.shapeCount}
    ELSE IF attr = "color" THEN
        {<<"hue", FULL_PALETTE[k]>> : k \in 1..config.paletteSize}
    ELSE IF attr = "dots" THEN
        {<<"dotCount", n>> : n \in 1..config.maxDots}
    ELSE
        {<<"notchAngle", getNotchAngle(slot, config.notchPositions)>> :
            slot \in 0..(config.notchPositions - 1)}

\* C27: when the pool of the mutated attribute has exactly 2 values, the
\* non-matching value that mutate generates is, for every outcome of the
\* random draws, the one pool member other than the friend's value.
C27_TwoValuePoolGivesTheOther ==
    (genStage = "mutate" /\ Cardinality(Pool(getLevelConfig(genLevel), genAttr)) = 2) =>
        /\ attrValue(genOrb, genAttr) \in Pool(getLevelConfig(genLevel), genAttr)
        /\ attrValue(genOrb, genAttr) # attrValue(buildRule(genLevel).friend, genAttr)

(***************************************************************************)
(* The level table, the rule catalog of engine/rules.ts and the scoring    *)
(* functions of engine/scoring.ts, each evaluated on one input.            *)
(***************************************************************************)
OBJECT_VISIBLE_MS == 2000

\* scoreFriendClick without the floor at zero
scoreFriendClickNoFloor(reactionMs) == OBJECT_VISIBLE_MS - reactionMs

scoreFriendClick(reactionMs) == Max2(0, OBJECT_VISIBLE_MS - reactionMs)

\* the ids of RULES
RULES == <<"circle-color", "notch-position", "dot-count">>

\* what indexing an array outside 0 .. length - 1 returns
Undefined == "undefined"

\* a % n of JavaScript for n > 0: the sign of the result is the sign of a
JsRem(a, n) == IF a >= 0 THEN a % n ELSE 0 - ((0 - a) % n)

ruleForRound(round) ==
    LET index == JsRem(round - 1, Len(RULES))
    IN  IF index \in 0..(Len(RULES) - 1) THEN RULES[index + 1] ELSE Undefined

\* none of the four functions has a throw statement, and none of the
\* operations they use (comparison, arithmetic, array indexing) throws
fnGetLevelConfig ==
    /\ fnStage = "off"
    /\ \E levelNumber \in (1 - BelowOne)..MaxCfgLevel :
        /\ fnArg' = levelNumber
        /\ fnOut' = getLevelConfig(levelNumber)
    /\ fnStage' = "getLevelConfig"
    /\ fnThrew' = FALSE
    /\ UNCHANGED <<gameVars, genVars, lbVars, idVars>>

fnRuleForRound ==
    /\ fnStage = "off"
    /\ \E round \in (1 - BelowOne)..MaxCfgLevel :
        /\ fnArg' = round
        /\ fnOut' = ruleForRound(round)
    /\ fnStage' = "ruleForRound"
    /\ fnThrew' = FALSE
    /\ UNCHANGED <<gameVars, genVars, lbVars, idVars>>

fnScoreFriendClick ==
    /\ fnStage = "off"
    /\ \E reactionMs \in 0..MaxReactionMs :
        /\ fnArg' = reactionMs
        /\ fnOut' = scoreFriendClick(reactionMs)
    /\ fnStage' = "scoreFriendClick"
    /\ fnThrew' = FALSE
    /\ UNCHANGED <<gameVars, genVars, lbVars, idVars>>

fnRoundClearBonus ==
    /\ fnStage = "off"
    /\ \E round \in 1..MaxBonusRound :
        /\ fnArg' = round
        /\ fnOut' = <<roundClearBonus(round), roundClearBonus(round + 1)>>
    /\ fnStage' = "roundClearBonus"
    /\ fnThrew' = FALSE
    /\ UNCHANGED <<gameVars, genVars, lbVars, idVars>>

\* getMinimumHits of both variants, next to the friendCount of the level
fnGetMinimumHits ==
    /\ fnStage = "off"
    /\ \E levelNumber \in 1..MaxCfgLevel :
        /\ fnArg' = levelNumber
        /\ fnOut' = [minHits |-> getMinimumHits(levelNumber),
                     minHitsBoard |-> getMinimumHitsBoard(levelNumber),
                     friendCount |-> getLevelConfig(levelNumber).friendCount]
    /\ fnStage' = "getMinimumHits"
    /\ fnThrew' = FALSE
    /\ UNCHANGED <<gameVars, genVars, lbVars, idVars>>

FnNext ==
    \/ fnGetLevelConfig
    \/ fnRuleForRound
    \/ fnScoreFriendClick
    \/ fnRoundClearBonus
    \/ fnGetMinimumHits

FnSpec == Init /\ [][FnNext]_vars

(***************************************************************************)
(* Properties of the level table, the catalog and the scoring functions,   *)
(* checked under FnSpec.                                                   *)
(***************************************************************************)
\* the number of values an attribute can take under a level configuration
poolSize(config, attr) ==
    IF attr = "shape" THEN config.shapeCount
    ELSE IF attr = "color" THEN config.paletteSize
    ELSE IF attr = "dots" THEN config.maxDots
    ELSE config.notchPositions

\* C14: for every round r >= 1, getLevelConfig(r) has a non-empty attributes
\* list, and the pool of every attribute in the list has at least 2 values
\* (shapeCount, paletteSize, maxDots, notchPositions respectively).
C14_ActivePoolsAtLeastTwo ==
    (fnStage = "getLevelConfig" /\ fnArg >= 1) =>
        /\ Len(fnOut.attributes) >= 1
        /\ \A k \in 1..Len(fnOut.attributes) : poolSize(fnOut, fnOut.attributes[k]) >= 2

\* level 19 combines shape and color, and the fairness reduction brings its
\* shape pool down to the floor of 2
C14_Witness ==
    /\ fnStage = "getLevelConfig"
    /\ fnArg = 19
    /\ fnOut.attributes = <<"shape", "color">>
    /\ fnOut.shapeCount = 2
    /\ fnOut.paletteSize = 3

\* C15: difficulty is monotone in the round number: for all rounds
\* 1 <= r < r', getLevelConfig(r') has at least as many active attributes
\* as getLevelConfig(r), and each of shapeCount, paletteSize, maxDots and
\* notchPositions at r' is at least its value at r.
C15_DifficultyMonotone ==
    (fnStage = "getLevelConfig" /\ fnArg >= 1) =>
        \A r \in 1..(fnArg - 1) :
            /\ Len(fnOut.attributes) >= Len(getLevelConfig(r).attributes)
            /\ fnOut.shapeCount >= getLevelConfig(r).shapeCount
            /\ fnOut.paletteSize >= getLevelConfig(r).paletteSize
            /\ fnOut.maxDots >= getLevelConfig(r).maxDots
            /\ fnOut.notchPositions >= getLevelConfig(r).notchPositions

\* C16: for every round r >= 1, however large, the pools of getLevelConfig(r)
\* stay within fixed upper bounds (shapeCount <= 6, paletteSize <= 9,
\* maxDots <= 8, notchPositions <= 8) and spawnDelayMs is never below its
\* floor of 300 ms.
C16_PoolsBoundedDelayFloored ==
    (fnStage = "getLevelConfig" /\ fnArg >= 1) =>
        /\ fnOut.shapeCount <= 6
        /\ fnOut.paletteSize <= 9
        /\ fnOut.maxDots <= 8
        /\ fnOut.notchPositions <= 8
        /\ fnOut.spawnDelayMs >= 300

\* level 50 (dots + notch, depth 35): both pools sit at their upper clamp
\* and the spawn delay at its floor
C16_Witness ==
    /\ fnStage = "getLevelConfig"
    /\ fnArg = 50
    /\ fnOut.maxDots = 8
    /\ fnOut.notchPositions = 8
    /\ fnOut.spawnDelayMs = 300

\* C17: a call of the rule catalog (ruleForRound, getLevelConfig) with a
\* round number below 1 fails fast with an error; it returns no rule
\* definition, no level configuration and no undefined value.
C17_RoundBelowOneFailsFast ==
    (fnStage \in {"getLevelConfig", "ruleForRound"} /\ fnArg < 1) => fnThrew

\* C18: for every reaction time t >= 0, scoreFriendClick(t) is 2000 - t up
\* to t = 2000 and 0 from there on: 2000 at t = 0, 0 for every t >= 2000,
\* never negative, and never larger than at a shorter reaction time.
C18_ScoreFriendClick ==
    fnStage = "scoreFriendClick" =>
        /\ fnOut = (IF fnArg <= 2000 THEN 2000 - fnArg ELSE 0)
        /\ fnArg = 0 => fnOut = 2000
        /\ fnArg >= 2000 => fnOut = 0
        /\ fnOut >= 0
        /\ \A t \in 0..fnArg : scoreFriendClick(t) >= fnOut

\* a click later than the visibility window scores at the floor
C18_Witness ==
    /\ fnStage = "scoreFriendClick"
    /\ fnArg = 2050
    /\ fnOut = 0

\* C19: roundClearBonus(r) = floor(500 * r^1.2) is strictly increasing in
\* the round number: roundClearBonus(r + 1) > roundClearBonus(r) for every
\* round r >= 1.
C19_RoundClearBonusIncreasing ==
    fnStage = "roundClearBonus" =>
        /\ fnOut[1] = roundClearBonus(fnArg)
        /\ fnOut[2] > fnOut[1]
        /\ \A r \in 1..fnArg : roundClearBonus(r) <= fnOut[1]

\* the bonuses of the rounds 1 and 2: floor(500 * 1) and floor(500 * 2^1.2)
C19_Witness ==
    /\ fnStage = "roundClearBonus"
    /\ fnArg = 1
    /\ fnOut = <<500, 1148>>

(***************************************************************************)
(* The component with the global leaderboard (unnamed/part_001): the same  *)
(* timers, clicks and round ends, a beginRun that also resets the          *)
(* leaderboard state, the effect that loads the board once the phase is    *)
(* dead, and handleSubmitScore.  loadReq is the select of the effect       *)
(* ("pending" while it is awaited and the effect is still active);         *)
(* submitReq holds the awaited inserts with their payloads, in the order   *)
(* they were sent; run_id is the number of the run, which stands for the   *)
(* uuid beginRun draws.  A request ends with data or with an error,        *)
(* whenever the network answers, in any order.  The table accepts one row  *)
(* per run_id (run_id uuid not null unique): once an insert of a run has   *)
(* succeeded, the other awaited inserts of that run are duplicates and can *)
(* only end with an error.                                                 *)
(***************************************************************************)
\* a leaderboard of n entries as the select returns it, highest score first
Board(n, high, low) ==
    [k \in 1..n |-> [totalScore |-> IF k < n THEN high ELSE low]]

\* the answers of the select: no entry, nine entries, ten entries of one
\* score, ten entries the last of which is lower
Boards ==
    {<<>>, Board(9, 100, 100), Board(10, 10, 10), Board(10, 100, 10)}

qualifiesForLeaderboard ==
    IF phase # "dead" \/ hasSubmittedScore \/ ~supabase THEN FALSE
    ELSE IF Len(leaderboard) < 10 THEN TRUE
    ELSE \E k \in 1..Len(leaderboard) : deathScoreRef > leaderboard[k].totalScore

BoardInit ==
    /\ GameInit
    /\ IdIdle
    /\ GenIdle
    /\ FnIdle
    /\ supabase \in BOOLEAN
    /\ leaderboard = <<>>
    /\ leaderboardError = Null
    /\ isLeaderboardLoading = FALSE
    /\ hasSubmittedScore = FALSE
    /\ loadReq = "none"
    /\ submitReq = NoSubmit

\* beginRun of the leaderboard variant; the phase leaves dead, so the
\* cleanup of the load effect runs and a select still awaited is ignored
beginRunBoard ==
    /\ runNo < MaxRuns
    /\ LET run == runNo + 1
           tick(second) == Timer(<<run, "countdown", 0, second>>, "countdown",
                                 (3 - second) * 1000, 0, second, NoObject)
           startTimer == Timer(<<run, "start", 0, 0>>, "start", 3000, 1, 0, NoObject)
           fresh == <<tick(3), tick(2), tick(1), startTimer>>
       IN  /\ timers' = clearAllTimers(timers) \o fresh
           /\ timersRef' = {fresh[k].id : k \in 1..Len(fresh)}
           /\ runNo' = run
    /\ expiryTimersRef' = {}
    /\ score' = 0
    /\ roundNumber' = 1
    /\ roundsCleared' = 0
    /\ friendsClicked' = 0
    /\ reactionTotal' = 0
    /\ currentRule' = buildRule(1)
    /\ roundFriendHitsRef' = 0
    /\ roundFriendHits' = 0
    /\ leaderboard' = <<>>
    /\ leaderboardError' = Null
    /\ hasSubmittedScore' = FALSE
    /\ deathScoreRef' = 0
    /\ countdown' = 3
    /\ phase' = "countdown"
    /\ closureScore' = score
    /\ clickTimes' = <<>>
    /\ loadReq' = "none"
    /\ staleOrb' = NoObject
    /\ UNCHANGED <<activeObjects, lateCount, clickCount, genVars, fnVars, idVars,
                   supabase, isLeaderboardLoading, submitReq>>

\* the effect on [phase, supabase], run once the phase has become dead
loadEffect ==
    /\ phase = "dead"
    /\ loadReq = "none"
    /\ IF ~supabase
       THEN /\ leaderboardError' = "Leaderboard unavailable"
            /\ loadReq' = "done"
            /\ UNCHANGED isLeaderboardLoading
       ELSE /\ isLeaderboardLoading' = TRUE
            /\ leaderboardError' = Null
            /\ loadReq' = "pending"
    /\ UNCHANGED <<gameVars, genVars, fnVars, idVars, supabase, leaderboard, hasSubmittedScore,
                   submitReq>>

\* the select returns data
loadDone ==
    /\ loadReq = "pending"
    /\ \E entries \in Boards : leaderboard' = entries
    /\ isLeaderboardLoading' = FALSE
    /\ loadReq' = "done"
    /\ UNCHANGED <<gameVars, genVars, fnVars, idVars, supabase, leaderboardError,
                   hasSubmittedScore, submitReq>>

\* loadFail that also wipes the recorded final score
loadFailWipesDeathScore ==
    /\ loadReq = "pending"
    /\ leaderboardError' = "Unable to load leaderboard"
    /\ isLeaderboardLoading' = FALSE
    /\ loadReq' = "done"
    /\ deathScoreRef' = 0
    /\ UNCHANGED <<phase, countdown, roundNumber, score, activeObjects, currentRule,
                   friendsClicked, reactionTotal, roundsCleared, roundFriendHits,
                   roundFriendHitsRef, timersRef, expiryTimersRef, timers,
                   closureScore, runNo, lateCount, clickCount, clickTimes, staleOrb,
                   genVars, fnVars, idVars, supabase, leaderboard,
                   hasSubmittedScore, submitReq>>

\* the select returns an error or throws
loadFail ==
    /\ loadReq = "pending"
    /\ leaderboardError' = "Unable to load leaderboard"
    /\ isLeaderboardLoading' = FALSE
    /\ loadReq' = "done"
    /\ UNCHANGED <<gameVars, genVars, fnVars, idVars, supabase, leaderboard, hasSubmittedScore,
                   submitReq>>

\* handleSubmitScore up to its await, with a name typed in; the form is
\* rendered while qualifiesForLeaderboard holds.  Nothing in it looks at an
\* insert that is still awaited
handleSubmitScore ==
    /\ qualifiesForLeaderboard
    /\ ~(~supabase \/ hasSubmittedScore)
    /\ Len(submitReq) < MaxSubmits
    /\ submitReq' = Append(submitReq, [run_id |-> runNo,
                                        total_score |-> deathScoreRef,
                                        rounds_cleared |-> roundsCleared,
                                        duplicate |-> FALSE])
    /\ UNCHANGED <<gameVars, genVars, fnVars, idVars, supabase, leaderboard, leaderboardError,
                   isLeaderboardLoading, hasSubmittedScore, loadReq>>

\* [...current, entry].sort(by totalScore descending, then date).slice(0, 10)
\* for an entry dated now: it goes behind the entries of at least its score
WithEntry(current, totalScore) ==
    LET ahead == SelectSeq(current, LAMBDA e : e.totalScore >= totalScore)
        behind == SelectSeq(current, LAMBDA e : e.totalScore < totalScore)
        sorted == ahead \o <<[totalScore |-> totalScore]>> \o behind
    IN  SubSeq(sorted, 1, Min2(10, Len(sorted)))

\* the awaited inserts without the one at position i
Answered(requests, i) ==
    SubSeq(requests, 1, i - 1) \o SubSeq(requests, i + 1, Len(requests))

\* the awaited inserts once the table holds a row of the run run_id
RowStored(requests, run_id) ==
    SubSeq([k \in 1..Len(requests) |->
               IF requests[k].run_id = run_id
               THEN [requests[k] EXCEPT !.duplicate = TRUE]
               ELSE requests[k]],
           1, Len(requests))

\* an insert succeeds: the rest of handleSubmitScore runs
submitDone ==
    /\ \E i \in 1..Len(submitReq) :
        /\ ~submitReq[i].duplicate
        /\ leaderboard' = WithEntry(leaderboard, submitReq[i].total_score)
        /\ submitReq' = RowStored(Answered(submitReq, i), submitReq[i].run_id)
    /\ hasSubmittedScore' = TRUE
    /\ UNCHANGED <<gameVars, genVars, fnVars, idVars, supabase, leaderboardError,
                   isLeaderboardLoading, loadReq>>

\* an insert returns an error
submitFail ==
    /\ \E i \in 1..Len(submitReq) : submitReq' = Answered(submitReq, i)
    /\ leaderboardError' = "Unable to submit score"
    /\ UNCHANGED <<gameVars, genVars, fnVars, idVars, supabase, leaderboard,
                   isLeaderboardLoading, hasSubmittedScore, loadReq>>

\* the player sends the form while no insert is awaited
submitWhenIdle ==
    /\ submitReq = NoSubmit
    /\ handleSubmitScore

BoardNext ==
    \/ beginRunBoard
    \/ advanceTime
    \/ countdownTick
    \/ startTimerFire
    \/ ruleCardEnd
    \/ spawnObject
    \/ expireObject
    \/ roundEndFail
    \/ roundEndClear
    \/ handleObjectClick
    \/ loadEffect
    \/ loadDone
    \/ loadFail
    \/ submitWhenIdle
    \/ submitDone
    \/ submitFail

BoardSpec == BoardInit /\ [][BoardNext]_vars

\* the leaderboard variant with a player who clicks no token and may send
\* the form again while inserts are awaited
FlightNext ==
    \/ beginRunBoard
    \/ advanceTime
    \/ countdownTick
    \/ startTimerFire
    \/ ruleCardEnd
    \/ spawnObject
    \/ expireObject
    \/ roundEndFail
    \/ loadEffect
    \/ loadDone
    \/ loadFail
    \/ handleSubmitScore
    \/ submitDone
    \/ submitFail

FlightSpec == BoardInit /\ [][FlightNext]_vars

(***************************************************************************)
(* Properties of the leaderboard variant, checked under BoardSpec.         *)
(***************************************************************************)
\* C21: in phase dead a run is treated as qualifying for submission exactly
\* when the leaderboard holds fewer than 10 entries or the final score of
\* the run is strictly greater than the score of at least one entry; a
\* score that only ties the lowest of 10 entries does not qualify.  Stated
\* for a run that has not been submitted, with the client configured.
C21_QualifiesExactlyWhenBeatsAnEntry ==
    (phase = "dead" /\ ~hasSubmittedScore /\ supabase) =>
        (qualifiesForLeaderboard <=>
            \/ Len(leaderboard) < 10
            \/ \E k \in 1..Len(leaderboard) : score > leaderboard[k].totalScore)

\* C22: when loading the leaderboard or submitting a score fails, only the
\* leaderboard error status changes (and the loading flag falls): phase,
\* score, death score, round number, rounds cleared and the rest of the run
\* state keep their values, and a start-run request after it starts a new
\* run as always, with the error cleared.
C22_BoardFailureIsLocal ==
    [][/\ (loadFail \/ submitFail \/ (loadEffect /\ ~supabase)) =>
            /\ leaderboardError' # Null
            /\ UNCHANGED <<phase, score, deathScoreRef, roundNumber, roundsCleared>>
            /\ UNCHANGED <<gameVars, leaderboard, hasSubmittedScore>>
       /\ (beginRunBoard /\ leaderboardError # Null) =>
            /\ phase' = "countdown" /\ countdown' = 3 /\ score' = 0
            /\ roundNumber' = 1 /\ roundsCleared' = 0 /\ deathScoreRef' = 0
            /\ leaderboardError' = Null
            /\ Len(timers') = 4
            /\ runNo' = runNo + 1]_vars

\* a run has ended with points, the player submitted them, and the insert
\* failed: the error is shown, the score is not marked as submitted
C22_Witness ==
    /\ phase = "dead"
    /\ leaderboardError = "Unable to submit score"
    /\ ~hasSubmittedScore
    /\ submitReq = NoSubmit
    /\ deathScoreRef > 0
    /\ score = deathScoreRef

\* C38: a select or an insert that is answered after beginRun has started
\* a new run changes nothing of the new run: no select is awaited outside
\* dead, and the answer to an insert of an earlier run neither sets
\* hasSubmittedScore nor changes the leaderboard list
C38_StaleAnswerLeavesNewRunAlone ==
    /\ [](loadReq = "pending" => phase = "dead")
    /\ [][(/\ Len(submitReq') < Len(submitReq)
           /\ \A i \in 1..Len(submitReq) : submitReq[i].run_id # runNo) =>
              (hasSubmittedScore' = hasSubmittedScore /\ leaderboard' = leaderboard)]_vars

\* C39: of one run at most one entry is sent: no two awaited inserts carry
\* the run_id of the same run, also when the form is sent again before the
\* answer to an earlier insert has come.  (That at most one of them adds an
\* entry to the list is the unique constraint of the table, RowStored.)
C39_OneEntryPerRun ==
    \A i, j \in 1..Len(submitReq) :
        i # j => submitReq[i].run_id # submitReq[j].run_id

\* C40: in phase dead, as long as the select has not answered, and after it
\* has failed, the run is not offered for submission
C40_NoQualifyingOnPlaceholder ==
    (/\ phase = "dead"
     /\ \/ loadReq # "done"
        \/ leaderboardError = "Unable to load leaderboard") =>
        ~qualifiesForLeaderboard

(***************************************************************************)
(* The variant of the component with a generation counter (the last        *)
(* component of unnamed/part_003).  It keeps every timeout id in timersRef *)
(* through schedule(), cancels them all in clearTimers() and stamps the    *)
(* callbacks of a run with the value of runIdRef at the time startRound or *)
(* startRun ran.  A timeout carries that value as the first component of   *)
(* its id.  Token ids are `${round}-${index}`, the same in every run.      *)
(* The points popups and the look of a token are left out.                 *)
(***************************************************************************)
COUNTDOWN_START == 3
TTL_MS == 2000
OBJECTS_PER_ROUND == 20

\* buildRoundPlan(roundNumber).plan as the set of friend indexes: the first
\* four entries of the seeded shuffle for seed 941 * round + 77
roundPlan(round) ==
    IF round = 1 THEN {8, 9, 17, 19}
    ELSE IF round = 2 THEN {9, 11, 12, 14}
    ELSE {3, 10, 17, 19}

spawnIntervalMsForRound(round) == clamp(760 - (round - 1) * 52, 260, 760)

\* the generation a timeout's callback has captured as runToken
runToken(timer) == timer.id[1]

\* what a callback reads and writes, and the timeouts it has scheduled
RunState ==
    [phase |-> phase, countdown |-> countdown, roundNumber |-> roundNumber,
     score |-> score, activeObjects |-> activeObjects,
     roundsCleared |-> roundsCleared, scheduled |-> <<>>]

\* startRound(nextRound) run under generation current
startRound(nextRound, current, st) ==
    [st EXCEPT !.roundNumber = nextRound,
               !.phase = "rule-card",
               !.activeObjects = <<>>,
               !.scheduled = Append(@, Timer(<<current, "ruleCard", nextRound, 0>>,
                                             "ruleCard", 2000, nextRound, 0, NoObject))]

\* the callback of a countdown step
countdownCallback(timer, current, st) ==
    IF current = runToken(timer) THEN [st EXCEPT !.countdown = timer.arg] ELSE st

\* the callback that ends the countdown
countdownEndCallback(timer, current, st) ==
    IF current = runToken(timer) THEN startRound(1, current, st) ELSE st

\* the callback that ends the rule card: the spawn timeouts and the round end
ruleCardCallback(timer, current, st) ==
    IF current # runToken(timer) THEN st
    ELSE LET intervalMs == spawnIntervalMsForRound(timer.round)
             spawnTimer(k) ==
                 Timer(<<runToken(timer), "spawn", timer.round, k - 1>>, "spawn",
                       intervalMs * (k - 1), timer.round, k - 1,
                       [NoObject EXCEPT !.id = <<0, timer.round, k - 1>>,
                                        !.isFriend = (k - 1) \in roundPlan(timer.round)])
             endTimer ==
                 Timer(<<runToken(timer), "roundEnd", timer.round, 0>>, "roundEnd",
                       intervalMs * OBJECTS_PER_ROUND + TTL_MS, timer.round, 0, NoObject)
         IN  [st EXCEPT !.phase = "round",
                        !.scheduled =
                            Append(SubSeq([k \in 1..OBJECTS_PER_ROUND |-> spawnTimer(k)],
                                          1, OBJECTS_PER_ROUND), endTimer)]

\* the callback that spawns a token and schedules its expiry
spawnCallback(timer, current, st) ==
    IF current # runToken(timer) THEN st
    ELSE [st EXCEPT !.activeObjects = Append(@, timer.object),
                    !.scheduled = Append(@, Timer(<<runToken(timer), "expiry",
                                                    timer.round, timer.arg>>,
                                                  "expiry", TTL_MS, timer.round,
                                                  timer.arg, timer.object))]

\* the callback of a token's expiry: it looks for the token id in
\* activeObjects and does not look at runIdRef
expiryCallback(timer, current, st) ==
    IF ~\E k \in 1..Len(st.activeObjects) : st.activeObjects[k].id = timer.object.id
    THEN st
    ELSE [st EXCEPT !.activeObjects = SelectSeq(@, LAMBDA o : o.id # timer.object.id),
                    !.score = IF timer.object.isFriend THEN @
                              ELSE @ + FALSE_EXPIRE_POINTS]

\* the callback of the round end
roundEndCallback(timer, current, st) ==
    IF current # runToken(timer) THEN st
    ELSE startRound(timer.round + 1, current,
                    [st EXCEPT !.score = @ + roundClearBonus(timer.round),
                               !.roundsCleared = @ + 1])

callbackOf(timer, current, st) ==
    IF timer.kind = "countdown" THEN countdownCallback(timer, current, st)
    ELSE IF timer.kind = "start" THEN countdownEndCallback(timer, current, st)
    ELSE IF timer.kind = "ruleCard" THEN ruleCardCallback(timer, current, st)
    ELSE IF timer.kind = "spawn" THEN spawnCallback(timer, current, st)
    ELSE IF timer.kind = "expiry" THEN expiryCallback(timer, current, st)
    ELSE roundEndCallback(timer, current, st)

\* what a callback returned becomes the state, and what it scheduled goes
\* through schedule() into timersRef; the timeout that ran is gone
commit(out) ==
    /\ phase' = out.phase
    /\ countdown' = out.countdown
    /\ roundNumber' = out.roundNumber
    /\ score' = out.score
    /\ activeObjects' = out.activeObjects
    /\ roundsCleared' = out.roundsCleared
    /\ timers' = Rest \o out.scheduled
    /\ timersRef' = timersRef \cup {out.scheduled[k].id : k \in 1..Len(out.scheduled)}
    /\ UNCHANGED <<currentRule, friendsClicked, reactionTotal, roundFriendHits,
                   deathScoreRef, roundFriendHitsRef, expiryTimersRef, closureScore,
                   runNo, lateCount, clickCount, clickTimes, staleOrb, runIdRef,
                   genVars, fnVars, lbVars>>

countdownStep ==
    /\ HasDue
    /\ Due.kind = "countdown"
    /\ \E out \in {countdownCallback(Due, runIdRef, RunState)} : commit(out)

countdownEnd ==
    /\ HasDue
    /\ Due.kind = "start"
    /\ \E out \in {countdownEndCallback(Due, runIdRef, RunState)} : commit(out)

ruleCardDone ==
    /\ HasDue
    /\ Due.kind = "ruleCard"
    /\ Due.round <= MaxRound
    /\ \E out \in {ruleCardCallback(Due, runIdRef, RunState)} : commit(out)

spawnToken ==
    /\ HasDue
    /\ Due.kind = "spawn"
    /\ \E out \in {spawnCallback(Due, runIdRef, RunState)} : commit(out)

expireToken ==
    /\ HasDue
    /\ Due.kind = "expiry"
    /\ \E out \in {expiryCallback(Due, runIdRef, RunState)} : commit(out)

roundDone ==
    /\ HasDue
    /\ Due.kind = "roundEnd"
    /\ \E out \in {roundEndCallback(Due, runIdRef, RunState)} : commit(out)

clearTimers(pending) == RemoveTimers(pending, timersRef)

\* startRun that does not call clearTimers()
startRunKeepsTimers ==
    /\ runNo < MaxRuns
    /\ runNo' = runNo + 1
    /\ runIdRef' = runIdRef + 1
    /\ score' = 0
    /\ friendsClicked' = 0
    /\ reactionTotal' = 0
    /\ roundsCleared' = 0
    /\ activeObjects' = <<>>
    /\ countdown' = COUNTDOWN_START
    /\ roundNumber' = 1
    /\ phase' = "countdown"
    /\ \E fresh \in {<<Timer(<<runIdRef + 1, "countdown", 0, 3>>, "countdown", 0, 0, 3, NoObject),
                       Timer(<<runIdRef + 1, "countdown", 0, 2>>, "countdown", 1000, 0, 2, NoObject),
                       Timer(<<runIdRef + 1, "countdown", 0, 1>>, "countdown", 2000, 0, 1, NoObject),
                       Timer(<<runIdRef + 1, "start", 0, 0>>, "start",
                             COUNTDOWN_START * 1000, 0, 0, NoObject)>>} :
        /\ timers' = timers \o fresh
        /\ timersRef' = timersRef \cup {fresh[k].id : k \in 1..Len(fresh)}
    /\ UNCHANGED <<currentRule, roundFriendHits, deathScoreRef, roundFriendHitsRef,
                   expiryTimersRef, closureScore, lateCount, clickCount, clickTimes,
                   staleOrb, genVars, fnVars, lbVars>>

\* a start-run request; it is accepted in every phase
startRun ==
    /\ runNo < MaxRuns
    /\ runNo' = runNo + 1
    /\ runIdRef' = runIdRef + 1
    /\ score' = 0
    /\ friendsClicked' = 0
    /\ reactionTotal' = 0
    /\ roundsCleared' = 0
    /\ activeObjects' = <<>>
    /\ countdown' = COUNTDOWN_START
    /\ roundNumber' = 1
    /\ phase' = "countdown"
    /\ \E fresh \in {<<Timer(<<runIdRef + 1, "countdown", 0, 3>>, "countdown", 0, 0, 3, NoObject),
                       Timer(<<runIdRef + 1, "countdown", 0, 2>>, "countdown", 1000, 0, 2, NoObject),
                       Timer(<<runIdRef + 1, "countdown", 0, 1>>, "countdown", 2000, 0, 1, NoObject),
                       Timer(<<runIdRef + 1, "start", 0, 0>>, "start",
                             COUNTDOWN_START * 1000, 0, 0, NoObject)>>} :
        /\ timers' = clearTimers(timers) \o fresh
        /\ timersRef' = {fresh[k].id : k \in 1..Len(fresh)}
    /\ UNCHANGED <<currentRule, roundFriendHits, deathScoreRef, roundFriendHitsRef,
                   expiryTimersRef, closureScore, lateCount, clickCount, clickTimes,
                   staleOrb, genVars, fnVars, lbVars>>

killRun ==
    /\ timers' = clearTimers(timers)
    /\ timersRef' = {}
    /\ runIdRef' = runIdRef + 1
    /\ activeObjects' = <<>>
    /\ phase' = "dead"

\* a press on the k-th token on screen
handleObjectPress ==
    /\ phase = "round"
    /\ \E k \in 1..Len(activeObjects) :
        \E target \in {activeObjects[k]} :
            IF ~target.isFriend THEN
                /\ killRun
                /\ UNCHANGED <<countdown, roundNumber, score, friendsClicked,
                               reactionTotal, roundsCleared, clickCount, clickTimes>>
            ELSE
                /\ clickCount < MaxFriendClicks
                /\ clickCount' = clickCount + 1
                /\ clickTimes' = Append(clickTimes, target.sinceSpawn)
                /\ activeObjects' = FilterOut(activeObjects, target.id)
                /\ score' = score + scoreFriendClick(target.sinceSpawn)
                /\ friendsClicked' = friendsClicked + 1
                /\ reactionTotal' = reactionTotal + target.sinceSpawn
                /\ UNCHANGED <<phase, countdown, roundNumber, roundsCleared, timers,
                               timersRef, runIdRef>>
    /\ UNCHANGED <<currentRule, roundFriendHits, deathScoreRef, roundFriendHitsRef,
                   expiryTimersRef, closureScore, runNo, lateCount, staleOrb,
                   genVars, fnVars, lbVars>>

RunIdNext ==
    \/ startRun
    \/ advanceTime
    \/ countdownStep
    \/ countdownEnd
    \/ ruleCardDone
    \/ spawnToken
    \/ expireToken
    \/ roundDone
    \/ handleObjectPress

RunIdSpec == Init /\ [][RunIdNext]_vars

(***************************************************************************)
(* Properties of the variant with the generation counter, checked under    *)
(* RunIdSpec.                                                              *)
(***************************************************************************)
\* the callback of the timeout changes nothing when it runs under a
\* generation other than the one it captured
InertWhenStale(timer) ==
    callbackOf(timer, runToken(timer) + 1, RunState) = RunState

C36_MinimumHitsWithinFriendCount ==
    fnStage = "getMinimumHits" =>
        /\ fnArg >= 1
        /\ 1 <= fnOut.minHits /\ fnOut.minHits <= fnOut.friendCount
        /\ 1 <= fnOut.minHitsBoard /\ fnOut.minHitsBoard <= fnOut.friendCount
        /\ fnOut.friendCount = 4

\* the highest level evaluated: three hits are needed of four friends
C36_Witness ==
    /\ fnStage = "getMinimumHits"
    /\ fnArg = MaxCfgLevel
    /\ fnOut.minHits = 3
    /\ fnOut.minHitsBoard = 3
    /\ fnOut.friendCount = 4

=============================================================================
